---- MODULE Spec2Model ----
(***************************************************************************)
(* Job orchestrator of the installation-media build service:               *)
(*   back_end/iso_jobs.py    Job, the job registry                         *)
(*   back_end/https_routes.py  the ISO-creation route, the websocket route *)
(*   iso/iso.py              ProxmoxISO.download, create_modified_iso      *)
(*   utm/utils/iso_dl.py     the chunked download and its progress hook    *)
(*   answer_file/cached_answers.py  CacheManager: the artifact cache, its  *)
(*                           blobs and its manifest on disk                *)
(*   utils/initrd_utils.py   the cpio newc codec of the installer ramdisk  *)
(*   iso/tools.py, iso/helpers.py  the external tools of the build         *)
(*                                                                         *)
(* Scheduling: one asyncio event loop.  A task runs without interruption   *)
(* up to the next await that really suspends (network, subprocess, worker  *)
(* thread, sleep, a task being awaited, a lock that is held).  Awaiting a  *)
(* coroutine, or entering a free asyncio.Lock, does not suspend.  One      *)
(* action of this module is one such uninterrupted run of one task.        *)
(***************************************************************************)
EXTENDS Integers, Sequences, FiniteSets, TLC

\* ---------------------------------------------------------------- constants
MAX_JOBS == 5
MANIFEST_VERSION == 1
TOTAL_STEPS == 17

\* ------------------------------------------------------------------- bounds
\* Requests the clients send to the ISO-creation route (specification Spec).
MaxRequests == 6
\* Requests sent in the observer specification SpecWs.
MaxObserved == 1
\* Websocket connections opened (specification SpecWs).
MaxClients == 2
\* Pipeline tasks the scheduler has resumed out of their first await (the
\* worker thread of CacheManager.new); the other started tasks still wait there.
MaxResumed == 1
\* Requests inside installer_iso_route at the same time.
MaxInFlight == 2
\* Buffer flushes of one base-image download.
MaxChunks == 2

\* CacheManager instances constructed (specifications SpecCache, SpecCache2).
MaxCaches == 2
\* Job ids used as cache keys, distinct payloads stored, image paths.
MaxCacheJobs == 2
MaxData == 2
MaxPaths == 1
\* Cache operations called, files damaged or removed from outside, crashes
\* of the process.
MaxCacheOps == 4
MaxFaults == 1
MaxCrashes == 1

JobIds == 1..MaxRequests
Clients == 1..MaxClients
None == 0

PENDING == "pending"
IN_PROGRESS == "in_progress"
COMPLETED == "completed"
FAILED == "failed"

VARIABLES
  reqPc,            \* request -> position of installer_iso_route
  resp,             \* request -> HTTP status returned (0: none yet)
  jobs,             \* _jobs: ids of the registered jobs
  status,           \* Job.status
  install_progress, \* Job.install_progress
  socket,           \* Job._socket (None or a websocket)
  lockHeld,         \* Job._lock is held
  taskPc,           \* position of the task running Job.run
  stage,            \* step number of the last on_update of create_modified_iso
  dl,               \* download in flight: buffers flushed and Content-Length
  pendingUpd,       \* update_progress tasks created by on_update, not run yet
  updCalls,         \* update_progress calls the job's live task has made
  exc,              \* an exception was raised inside the job's pipeline task
  manifestDisk,     \* manifest.json: by_job and iso_by_job (their key sets)
  jobCache,         \* Job.cache._manifest: the copy each job loaded
  wsPc,             \* websocket -> position of installer_iso_ws_route
  wsJob,            \* websocket -> job id it asked for
  chan,             \* websocket -> messages sent on it, in order, kept while
                    \* its route handler runs
  chanOpen,         \* websocket -> the connection is open
  overlap           \* two requests were in flight at the same time

\* The cache directory and the CacheManager objects working on it.
VARIABLES
  blobFile,         \* <cache>/data/<digest>: content of the file, None if absent
  blobTmp,          \* digests whose <cache>/data/<digest>.tmp exists
  manifestFile,     \* <cache>/manifest.json
  manifestTmp,      \* <cache>/manifest.json.tmp
  isoFile,          \* image paths at which a file exists
  cmPc,             \* CacheManager -> position of the operation it runs
  cmManifest,       \* CacheManager._manifest
  cmOp,             \* CacheManager -> locals and result of its last operation
  cmOps,            \* cache operations called so far
  faults,           \* files damaged or removed from outside so far
  crashes           \* crashes of the process so far

\* The boot ramdisk under conversion by the archive codec.
VARIABLES
  initrd,           \* boot/initrd.img: its compression and its cpio records
  ramdisk,          \* the tree under dest_dir: path -> kind and content
  sidecar,          \* dest_dir/.cpio_metadata.json
  ok,               \* what unpack_initrd returned
  cpio_bytes,       \* the archive repack_initrd has built
  cpioPc,           \* position of the conversion
  cwd,              \* the working directory of the process
  packPc,           \* worker thread -> position in _build_cpio_newc_from_dir
  old_cwd,          \* worker thread -> its local old_cwd
  read_from,        \* worker thread -> the directories its relative paths named
  lifecycle         \* one Job with its run task and a caller of stop()

\* The workspaces of the builds running create_modified_iso.
VARIABLES
  isoPc,            \* build -> position of create_modified_iso
  coroutine_status, \* build -> what xorriso_extract_iso returned
  extracted,        \* build -> work_dir/extracted: its files and their content
  ram_disk,         \* build -> work_dir/extracted_ram_disk
  repacked_ram_disk,\* build -> work_dir/repacked_ram_disk/initrd.img
  squashfs_dir,     \* build -> work_dir/extracted_squashfs
  tmp_squash,       \* /tmp/pve-base.squashfs: the build whose mksquashfs wrote it
  out,              \* build -> the image authored at work_dir/repacked/auto-installer-<job>.iso
  spawned,          \* build -> the external tools it has started
  repacked_dir,     \* build -> the names of the files in work_dir/repacked
  final_dir,        \* the shared output directory: its files, name and image
  modified_iso_path,\* build -> ModifiedProxmoxISO.modified_iso_path
  iso_by_job        \* build -> the path set_iso_path recorded for the job

packVars == <<cwd, packPc, old_cwd, read_from>>
codecVars == <<initrd, ramdisk, sidecar, ok, cpio_bytes, cpioPc, packVars>>
isoVars == <<isoPc, coroutine_status, extracted, ram_disk, repacked_ram_disk,
             squashfs_dir, tmp_squash, out, spawned, repacked_dir, final_dir,
             modified_iso_path, iso_by_job>>
moveVars == <<final_dir, modified_iso_path, iso_by_job>>

orchVars == <<reqPc, resp, jobs, status, install_progress, socket, lockHeld,
              taskPc, stage, dl, pendingUpd, updCalls, exc, manifestDisk, jobCache,
              wsPc, wsJob, chan, chanOpen, overlap>>

diskVars == <<blobFile, blobTmp, manifestFile, manifestTmp, isoFile>>
storeVars == <<diskVars, cmPc, cmManifest, cmOp, cmOps, faults, crashes>>

vars == <<orchVars, storeVars, codecVars, isoVars, lifecycle>>

reqVars == <<reqPc, resp, overlap>>
wsVars == <<wsPc, wsJob, chanOpen>>
cacheVars == <<manifestDisk, jobCache>>

\* ------------------------------------------------------------ pure functions
\* utils.calculate_percentage: round((part / whole) * 100), Python's round
\* (half to even), 0 when whole is 0.
calculate_percentage(part, whole) ==
  IF whole = 0 THEN 0
  ELSE LET q == (100 * part) \div whole
           r == (100 * part) % whole
       IN  IF 2 * r < whole THEN q
           ELSE IF 2 * r > whole THEN q + 1
           ELSE IF q % 2 = 0 THEN q ELSE q + 1

EmptyManifest == [by_job |-> {}, iso_by_job |-> {}]

\* The message update_progress sends; n is the number of the update_progress
\* call that produced it.
ProgressEvent(p, st, n) ==
  [kind |-> "progress", progress |-> p, status |-> st, n |-> n]

\* The message the websocket route sends right after attaching.
SnapshotEvent(j) ==
  [kind |-> "snapshot", progress |-> install_progress[j], status |-> status[j], n |-> 0]

\* send_socket_update: the message goes out on an open connection; on a closed
\* one send_text raises, which is logged and swallowed.
Sent(ch, c, ev) ==
  IF c # None /\ chanOpen[c] THEN [ch EXCEPT ![c] = Append(@, ev)] ELSE ch

\* The registry lock held by run for as long as the job is being built.
RegistryLockedAcrossRun == {"new", "download", "stage"}

\* The positions at which a task is suspended inside an `async with _lock` of
\* the registry: add_job, remove_job, get_job, count_jobs and below_max_jobs
\* have no await inside their `async with _lock`, so there is none.
RegistryLockedAt == {}

\* The registry lock is free: no task is suspended holding it.
RegistryFree == \A j \in JobIds : taskPc[j] \notin RegistryLockedAt

\* below_max_jobs comparing with <= : one job too many is admitted.
below_max_jobs_inclusive == Cardinality(jobs) <= MAX_JOBS

\* below_max_jobs: len(_jobs) < MAX_JOBS, read under the registry lock
below_max_jobs == Cardinality(jobs) < MAX_JOBS

\* The route without its second check_max_jobs.
RecheckSkipped == TRUE

\* The second check_max_jobs of the route, after the request body was read
RecheckPasses == below_max_jobs

\* A task that ended: it returned, or an exception left Job.run.
TaskEnded(j) == taskPc[j] \in {"done", "raised"}
Resumed == {j \in JobIds : taskPc[j] \notin {"none", "cache"}}

\* The Job objects constructed so far.
created == {j \in JobIds : taskPc[j] # "none"}

InFlight == {r \in JobIds : reqPc[r] \in {"body", "sleep"}}

\* ============================================================== CacheManager
\* One operation at a time runs on a CacheManager: every operation that
\* touches _manifest does so inside `async with self._lock`, so the operations
\* of one object follow one another.  Two objects have two locks.  Each
\* action below runs an operation up to its next asyncio.to_thread call and
\* includes what that worker thread did.
Caches == 1..MaxCaches
CJobs == 1..MaxCacheJobs
Data == 1..MaxData
Paths == 1..MaxPaths

\* Content of a blob file that was damaged: equal to no payload.
Garbled == MaxData + 1

\* _sha256_bytes / _hash_file_path: the digest of a content; distinct contents
\* have distinct digests.
sha256(c) == <<"sha256", c>>
Digests == {sha256(d) : d \in Data}
NoDigest == <<"none", None>>

\* data_dir / digest
PathOf(dg) == <<"data", dg>>

\* The value of return statements without a result, and of `return None`.
Nothing == <<>>

\* _manifest as __init__ builds it: by_job (job -> digest), by_hash (the
\* digests in insertion order; the path of a digest is data_dir / digest),
\* iso_by_job (job -> image path).
NewManifest ==
  [by_job |-> [j \in CJobs |-> NoDigest],
   by_hash |-> <<>>,
   iso_by_job |-> [j \in CJobs |-> None]]

\* A manifest file: absent, holding the JSON text of a manifest, or holding a
\* text that was cut short (json.loads raises on it).
AbsentFile == [st |-> "absent", m |-> NewManifest]
TornFile == [st |-> "torn", m |-> NewManifest]
Written(m) == [st |-> "ok", m |-> m]

\* json.dumps(_manifest): the text of manifest.json.  An object holds the
\* members that are set, in the order of their insertion; job ids, digests and
\* paths are strings in _manifest (str(job_id), hexdigest(), str(p)) and stay
\* what they are.
json_dumps(m) ==
  [version |-> MANIFEST_VERSION,
   by_job |-> {<<j, m.by_job[j]>> : j \in {k \in CJobs : m.by_job[k] # NoDigest}},
   by_hash |-> m.by_hash,
   iso_by_job |-> {<<j, m.iso_by_job[j]>> : j \in {k \in CJobs : m.iso_by_job[k] # None}}]

\* The value of key in a JSON object, default if it has no such member.
Member(obj, key, default) ==
  IF \E e \in obj : e[1] = key THEN (CHOOSE e \in obj : e[1] = key)[2] ELSE default

\* json.loads(text), then the setdefault calls of _load_manifest.
json_loads(t) ==
  [by_job |-> [j \in CJobs |-> Member(t.by_job, j, NoDigest)],
   by_hash |-> t.by_hash,
   iso_by_job |-> [j \in CJobs |-> Member(t.iso_by_job, j, None)]]

\* _load_manifest taking every manifest for one of another version.
VersionNeverMatches(t) == FALSE

\* _load_manifest, line 61: loaded.get("version") == MANIFEST_VERSION
VersionMatches(t) == t.version = MANIFEST_VERSION

NoOp ==
  [op |-> "none", job |-> None, data |-> None, digest |-> NoDigest,
   path |-> None, must_exist |-> FALSE, items |-> <<>>, missing |-> <<>>, mismatches |-> <<>>,
   ret |-> Nothing, raised |-> FALSE]

InByHash(m, dg) == \E k \in DOMAIN m.by_hash : m.by_hash[k] = dg

\* dict.pop(digest) on by_hash
PopHash(m, dg) == [m EXCEPT !.by_hash = SelectSeq(@, LAMBDA x : x # dg)]

\* put_bytes leaving out by_job[jid] = digest.
RecordPutNoJob(m, j, dg) ==
  [m EXCEPT !.by_hash = IF InByHash(m, dg) THEN @ ELSE Append(@, dg)]

\* put_bytes, lines 111-112: by_job[jid] = digest; by_hash[digest] = str(dest)
RecordPut(m, j, dg) ==
  [m EXCEPT !.by_job[j] = dg,
            !.by_hash = IF InByHash(m, dg) THEN @ ELSE Append(@, dg)]

\* put_bytes writing the blob whether or not it is there.
PutDestNeverExists(dg) == FALSE

\* put_bytes, line 107: dest.exists()
PutDestExists(dg) == blobFile[dg] # None

\* delete_by_job treating every digest as unreferenced.
StillRefNever(m, dg) == FALSE

\* delete_by_job, line 292: any(h == digest for h in by_job.values())
StillRef(m, dg) == \E k \in CJobs : m.by_job[k] = dg

\* set_iso_path recording the path without looking at the file.
IsoCheckSkipped(p, must_exist) == FALSE

\* set_iso_path, line 325: must_exist and not p.exists()
IsoCheckFails(p, must_exist) == must_exist /\ p \notin isoFile

\* integrity_check accepting every file that exists.
IsMismatchNever(dg, content) == FALSE

\* integrity_check, lines 199-200: new_digest != digest
IsMismatch(dg, content) == sha256(content) # dg

\* integrity_check(sample): None stands for "no sample given".
NoSample == 0 - 1
Samples == {NoSample} \cup (0..MaxData)

\* items[: max(0, sample)], all items when no sample is given
Sampled(items, sample) ==
  IF sample = NoSample THEN items
  ELSE SubSeq(items, 1, IF sample < Len(items) THEN sample ELSE Len(items))

\* get_path_by_job: the path recorded for the job's digest if a file is there
\* (Path("") is the current directory, which exists).
get_path_by_job(i, j) ==
  LET dg == cmManifest[i].by_job[j] IN
    IF dg = NoDigest THEN Nothing
    ELSE IF ~InByHash(cmManifest[i], dg) THEN <<".">>
    ELSE IF blobFile[dg] # None THEN PathOf(dg)
    ELSE Nothing

\* get_path_by_hash: Path(by_hash.get(digest, "")) if that path exists; for a
\* digest without an entry that is Path(""), the current directory.
get_path_by_hash(i, dg) ==
  IF ~InByHash(cmManifest[i], dg) THEN <<".">>
  ELSE IF blobFile[dg] # None THEN PathOf(dg)
  ELSE Nothing

\* exists(digest): get_path_by_hash(digest) is not None
exists(i, dg) == get_path_by_hash(i, dg) # Nothing

\* read_bytes_by_job: the bytes of that file, as they are.
read_bytes_by_job(i, j) ==
  LET dg == cmManifest[i].by_job[j] IN
    IF get_path_by_job(i, j) = PathOf(dg) THEN blobFile[dg] ELSE None

\* get_iso_path: the recorded path if a file is there.
get_iso_path(i, j) ==
  LET p == cmManifest[i].iso_by_job[j] IN
    IF p = None THEN None
    ELSE IF p \in isoFile THEN p
    ELSE None

\* The cache directory before the first CacheManager.new(); the image files
\* of earlier builds are in place.
InitStore ==
  /\ blobFile = [dg \in Digests |-> None]
  /\ blobTmp = {}
  /\ manifestFile = AbsentFile
  /\ manifestTmp = AbsentFile
  /\ isoFile = Paths
  /\ cmManifest = [i \in Caches |-> NewManifest]
  /\ cmOp = [i \in Caches |-> NoOp]
  /\ cmOps = 0
  /\ faults = 0
  /\ crashes = 0

\* ============================================================ archive codec
\* utils/initrd_utils.py: the reader and the writer of the boot ramdisk, a
\* compressed cpio "newc" archive.  A name is the sequence of its characters
\* and file content a sequence of bytes ("CR" and "LF" are the bytes 13 and
\* 10).  An archive is the sequence of its records: the magic, the fields of
\* the 110-byte header, the name and the data.  The archives read here are
\* well formed apart from the magic of their records: the sizes in a header
\* are those of the name and the data that follow it, padded to 4 bytes.
Root == <<>>
Dot == <<".">>
META_FILE == <<".", "c", "p", "i", "o", "_", "m", "e", "t", "a", "d", "a",
               "t", "a", ".", "j", "s", "o", "n">>
TRAILER == <<"T", "R", "A", "I", "L", "E", "R", "!", "!", "!">>
NEWC == "070701"

n_init == <<"i", "n", "i", "t">>
n_bin == <<"b", "i", "n">>
n_bin_sh == <<"b", "i", "n", "/", "s", "h">>
n_bin_x == <<"b", "i", "n", "/", "x">>
n_dot_rc == <<".", "r", "c">>
n_rc == <<"r", "c">>
n_etc == <<"e", "t", "c">>
n_a_sh == <<"a", ".", "s", "h">>
n_answer == <<"a", "n", "s", "w", "e", "r", ".", "t", "o", "m", "l">>
n_discovery == <<"d", "i", "s", "c", "o", "v", "e", "r", "y", ".", "s", "h">>

\* The names a ramdisk tree of this model can hold, in the order os.listdir
\* lists them (or in the reverse of it).
AllNames == <<n_bin, n_etc, n_dot_rc, n_rc, n_init, n_a_sh, n_bin_sh, n_bin_x,
              n_answer, n_discovery, META_FILE>>

\* str.startswith, str.endswith, bytes `in`
startswith(s, p) == Len(s) >= Len(p) /\ SubSeq(s, 1, Len(p)) = p
endswith(s, p) == Len(s) >= Len(p) /\ SubSeq(s, Len(s) - Len(p) + 1, Len(s)) = p
contains(s, p) == \E i \in 1..(Len(s) - Len(p) + 1) : SubSeq(s, i, i + Len(p) - 1) = p

\* str.lstrip(chars): the leading characters that are in chars are dropped.
RECURSIVE lstrip(_, _)
lstrip(s, chars) ==
  IF s # <<>> /\ Head(s) \in chars THEN lstrip(Tail(s), chars) ELSE s

\* full.as_posix().lstrip("./") or "."
RelOf(full) ==
  LET rel == lstrip(full, {".", "/"}) IN IF rel = <<>> THEN Dot ELSE rel

\* The indices of the "/" of a path, its parent (Root for a top-level path),
\* its last component (Path.name) and its proper ancestors (Path.parts[:i]).
Slashes(p) == {i \in 1..Len(p) : p[i] = "/"}
LastSlash(p) == CHOOSE i \in Slashes(p) : \A k \in Slashes(p) : k <= i
ParentOf(p) == IF Slashes(p) = {} THEN Root ELSE SubSeq(p, 1, LastSlash(p) - 1)
NameOf(p) == IF Slashes(p) = {} THEN p ELSE SubSeq(p, LastSlash(p) + 1, Len(p))
Ancestors(p) == {SubSeq(p, 1, i - 1) : i \in Slashes(p)}

\* stat: the file type of a mode, its permission bits
S_IFDIR == 16384
S_IFLNK == 40960
S_IFREG == 32768
S_IFMT(mode) == (mode \div 4096) * 4096
S_ISDIR(mode) == S_IFMT(mode) = S_IFDIR
S_ISLNK(mode) == S_IFMT(mode) = S_IFLNK
S_IMODE(mode) == mode % 4096

\* a | b on non-negative integers
RECURSIVE BitOr(_, _)
BitOr(a, b) ==
  IF a = 0 THEN b
  ELSE IF b = 0 THEN a
  ELSE 2 * BitOr(a \div 2, b \div 2) + (IF a % 2 = 1 \/ b % 2 = 1 THEN 1 ELSE 0)

\* dict.get(key, default), and metadata.get(rel, {})
Get(meta, key, default) == IF key \in DOMAIN meta THEN meta[key] ELSE default
NoMeta == <<>>
MetaGet(metadata, rel) == IF rel \in DOMAIN metadata.at THEN metadata.at[rel] ELSE NoMeta

\* bytes.splitlines()[:1][0]: the bytes before the first line break
RECURSIVE FirstLine(_)
FirstLine(data) ==
  IF data = <<>> \/ Head(data) \in {"CR", "LF"} THEN <<>>
  ELSE <<Head(data)>> \o FirstLine(Tail(data))

_is_text_shell_script(name, data) ==
  \/ name = n_init
  \/ endswith(name, <<".", "s", "h">>)
  \/ (startswith(data, <<"#", "!">>) /\ contains(FirstLine(data), <<"/", "s", "h">>))

\* data.replace(b"\r\n", b"\n")
RECURSIVE _to_unix_lf(_)
_to_unix_lf(data) ==
  IF data = <<>> THEN <<>>
  ELSE IF startswith(data, <<"CR", "LF">>) THEN <<"LF">> \o _to_unix_lf(Tail(Tail(data)))
  ELSE <<Head(data)>> \o _to_unix_lf(Tail(data))

WellKnown(rel) ==
  \/ rel = n_init
  \/ rel = n_discovery
  \/ startswith(rel, <<"b", "i", "n", "/">>)
  \/ startswith(rel, <<"s", "b", "i", "n", "/">>)
  \/ startswith(rel, <<"u", "s", "r", "/", "b", "i", "n", "/">>)
  \/ startswith(rel, <<"u", "s", "r", "/", "s", "b", "i", "n", "/">>)
  \/ endswith(rel, <<".", "s", "h">>)

\* _perm_for: the recorded permission bits, or 0755 / 0777 / 0644; then the
\* executable bits 0111 for a well-known path that is no directory.
_perm_for(rel, is_dir, is_symlink, meta) ==
  LET m == IF "mode" \in DOMAIN meta THEN S_IMODE(meta["mode"])
           ELSE IF is_dir THEN 493
           ELSE IF is_symlink THEN 511
           ELSE 420
  IN  IF WellKnown(rel) /\ ~is_dir THEN BitOr(m, 73) ELSE m

\* bytes.decode("utf-8", errors="ignore") followed by str.encode("utf-8"): the
\* bytes that are no UTF-8 ("xFF" here) are dropped.
decode_ignore(data) == SelectSeq(data, LAMBDA b : b # "xFF")

\* ---- the ramdisk tree on disk: path -> [kind, data]
Dir == [kind |-> "dir", data |-> <<>>]
File(data) == [kind |-> "file", data |-> data]
EmptyTree == [p \in {} |-> Dir]

\* Path.mkdir(parents=True, exist_ok=True): the path and its ancestors are
\* directories afterwards; what exists is left alone.  dest_dir / "." is
\* dest_dir itself, which exists.
mkdir(tree, p) ==
  IF p \in {Root, Dot} THEN tree
  ELSE LET new == (Ancestors(p) \cup {p}) \ DOMAIN tree IN
         [q \in DOMAIN tree \cup new |-> IF q \in DOMAIN tree THEN tree[q] ELSE Dir]

\* target.open("wb").write(data)
write_bytes(tree, p, data) ==
  [q \in DOMAIN tree \cup {p} |-> IF q = p THEN File(data) ELSE tree[q]]

\* metadata[name] = entry: a new key goes last
NoMetadata == [keys |-> <<>>, at |-> [p \in {} |-> NoMeta]]
Record(metadata, name, entry) ==
  [keys |-> IF name \in DOMAIN metadata.at THEN metadata.keys ELSE Append(metadata.keys, name),
   at |-> [q \in DOMAIN metadata.at \cup {name} |->
             IF q = name THEN entry ELSE metadata.at[q]]]

\* {**entry, "symlink": link_target}
WithSymlink(entry, link_target) ==
  [k \in DOMAIN entry \cup {"symlink"} |->
     IF k = "symlink" THEN link_target ELSE entry[k]]

\* The header check skipped: any magic is taken for a newc header.
magic_unchecked(r) == TRUE

\* hdr[:6] == "070701"
magic_ok(r) == r.magic = NEWC

\* _parse_cpio_newc_to_dir, the loop from record i on: a directory is made, a
\* symlink is recorded only, anything else is written as a regular file; a
\* record whose magic is not 070701 raises ValueError and leaves what the
\* records before it have made.
RECURSIVE ParseFrom(_, _, _, _)
ParseFrom(recs, i, tree, metadata) ==
  IF i > Len(recs) \/ (magic_ok(recs[i]) /\ recs[i].name = TRAILER)
  THEN [tree |-> tree, metadata |-> metadata, raised |-> FALSE]
  ELSE IF ~magic_ok(recs[i])
  THEN [tree |-> tree, metadata |-> metadata, raised |-> TRUE]
  ELSE LET name == recs[i].name
           entry == recs[i].hdr
       IN  IF S_ISDIR(entry.mode)
           THEN ParseFrom(recs, i + 1, mkdir(tree, name), Record(metadata, name, entry))
           ELSE IF S_ISLNK(entry.mode)
           THEN ParseFrom(recs, i + 1, tree,
                          Record(metadata, name, WithSymlink(entry, decode_ignore(recs[i].data))))
           ELSE ParseFrom(recs, i + 1,
                          write_bytes(mkdir(tree, ParentOf(name)), name, recs[i].data),
                          Record(metadata, name, entry))

\* dest_dir/.cpio_metadata.json: whether the file exists and the metadata in it
NoSidecar == [exists |-> FALSE, metadata |-> NoMetadata]
Sidecar(metadata) == [exists |-> TRUE, metadata |-> metadata]

\* _parse_cpio_newc_to_dir: after the loop the metadata is written to
\* dest_dir/.cpio_metadata.json; an exception leaves the loop before that.
_parse_cpio_newc_to_dir(recs, tree) ==
  LET r == ParseFrom(recs, 1, tree, NoMetadata) IN
    IF r.raised THEN [tree |-> r.tree, sidecar |-> NoSidecar, raised |-> TRUE]
    ELSE [tree |-> write_bytes(r.tree, META_FILE, <<"j", "s", "o", "n">>),
          sidecar |-> Sidecar(r.metadata), raised |-> FALSE]

\* ---- _build_cpio_newc_from_dir
\* int(time()) when the archive is built
now == 9

\* write_entry: the record of one entry.  The data is the recorded target of
\* a symlink, nothing for a directory, the bytes of the file otherwise, with
\* CRLF turned into LF in a shell script; the header fields are the recorded
\* ones, or their defaults.
write_entry(name, full_path, meta, is_dir, is_symlink, tree) ==
  LET file_bytes ==
        IF is_symlink THEN Get(meta, "symlink", <<>>)
        ELSE IF is_dir THEN <<>>
        ELSE LET b == tree[full_path].data IN
               IF _is_text_shell_script(name, b) THEN _to_unix_lf(b) ELSE b
      perm == _perm_for(name, is_dir, is_symlink, meta)
      mode == BitOr(perm, IF is_dir THEN S_IFDIR ELSE IF is_symlink THEN S_IFLNK ELSE S_IFREG)
  IN  [magic |-> NEWC,
       hdr |-> [ino |-> Get(meta, "ino", 0),
                mode |-> mode,
                uid |-> Get(meta, "uid", 0),
                gid |-> Get(meta, "gid", 0),
                nlink |-> Get(meta, "nlink", 1),
                mtime |-> Get(meta, "mtime", now),
                filesize |-> Len(file_bytes),
                devmajor |-> Get(meta, "devmajor", 0),
                devminor |-> Get(meta, "devminor", 0),
                rdevmajor |-> Get(meta, "rdevmajor", 0),
                rdevminor |-> Get(meta, "rdevminor", 0),
                namesize |-> Len(name) + 1,
                check |-> 0],
       name |-> name,
       data |-> file_bytes]

\* The trailer record that ends the archive.
Trailer ==
  [magic |-> NEWC,
   hdr |-> [ino |-> 0, mode |-> 0, uid |-> 0, gid |-> 0, nlink |-> 0, mtime |-> 0,
            filesize |-> 0, devmajor |-> 0, devminor |-> 0, rdevmajor |-> 0,
            rdevminor |-> 0, namesize |-> Len(TRAILER) + 1, check |-> 0],
   name |-> TRAILER,
   data |-> <<>>]

\* _should_skip: the metadata file, by its name, in any directory.  (The names
\* of this model are in lower case.)
_should_skip(path) == NameOf(path) = META_FILE

\* os.listdir: the entries of one kind of a directory, in the order of the
\* file system, which is unspecified: the order of AllNames, or its reverse.
Listed(tree, top, kind, rev) ==
  LET found == SelectSeq(AllNames, LAMBDA p : p \in DOMAIN tree /\ ParentOf(p) = top
                                              /\ tree[p].kind = kind)
  IN  IF rev THEN [i \in 1..Len(found) |-> found[Len(found) + 1 - i]] ELSE found

RECURSIVE Flatten(_)
Flatten(ss) == IF ss = <<>> THEN <<>> ELSE Head(ss) \o Flatten(Tail(ss))

\* os.walk("."), top-down: the paths in the order in which the loops of
\* _build_cpio_newc_from_dir meet them: the directories of a directory, then
\* its files, then the same for each of its directories.
RECURSIVE os_walk(_, _, _)
os_walk(tree, top, rev) ==
  LET dirs == Listed(tree, top, "dir", rev)
      files == Listed(tree, top, "file", rev)
  IN  dirs \o files \o Flatten([i \in 1..Len(dirs) |-> os_walk(tree, dirs[i], rev)])

\* The loops over dirs and files: a path is skipped if it is the metadata file
\* or if its rel has been written; a file is a symlink if its record says so.
RECURSIVE WalkFrom(_, _, _, _, _, _)
WalkFrom(order, i, tree, metadata, buf, written) ==
  IF i > Len(order) THEN [buf |-> buf, written |-> written]
  ELSE LET full == order[i]
           rel == RelOf(full)
           meta == MetaGet(metadata, rel)
           is_dir == tree[full].kind = "dir"
       IN  IF _should_skip(full) \/ rel \in written
           THEN WalkFrom(order, i + 1, tree, metadata, buf, written)
           ELSE WalkFrom(order, i + 1, tree, metadata,
                         Append(buf, write_entry(rel, full, meta, is_dir,
                                                 ~is_dir /\ "symlink" \in DOMAIN meta, tree)),
                         written \cup {rel})

\* The ancestors of a recorded symlink that are not written yet, outermost
\* first, each written as a directory.
RECURSIVE ParentsFrom(_, _, _, _, _, _)
ParentsFrom(reln, i, tree, metadata, buf, written) ==
  IF i > Len(reln) THEN [buf |-> buf, written |-> written]
  ELSE IF reln[i] # "/" THEN ParentsFrom(reln, i + 1, tree, metadata, buf, written)
  ELSE LET drel == RelOf(SubSeq(reln, 1, i - 1)) IN
         IF drel # Dot /\ drel \notin written
         THEN ParentsFrom(reln, i + 1, tree, metadata,
                          Append(buf, write_entry(drel, drel, MetaGet(metadata, drel),
                                                  TRUE, FALSE, tree)),
                          written \cup {drel})
         ELSE ParentsFrom(reln, i + 1, tree, metadata, buf, written)

\* The loop over metadata.items(): a recorded symlink that the walk did not
\* write is written from its record, after its ancestors.
RECURSIVE SymlinksFrom(_, _, _, _, _)
SymlinksFrom(i, tree, metadata, buf, written) ==
  IF i > Len(metadata.keys) THEN [buf |-> buf, written |-> written]
  ELSE LET rel == metadata.keys[i]
           meta == metadata.at[rel]
           reln == IF rel = <<>> THEN Dot ELSE rel
       IN  IF "symlink" \notin DOMAIN meta \/ reln \in written
           THEN SymlinksFrom(i + 1, tree, metadata, buf, written)
           ELSE LET ps == ParentsFrom(reln, 1, tree, metadata, buf, written) IN
                  SymlinksFrom(i + 1, tree, metadata,
                               Append(ps.buf, write_entry(reln, reln, meta, FALSE, TRUE, tree)),
                               ps.written \cup {reln})

\* _build_cpio_newc_from_dir: the record of ".", the walk, the recorded
\* symlinks, the trailer.  The metadata is that of the metadata file if it
\* exists.  (_select_cpio_root descends into the only entry of src_dir if that
\* is a directory; a tree that holds the metadata file is packed from src_dir.)
_build_cpio_newc_from_dir(tree, meta_path, rev) ==
  LET metadata == IF meta_path.exists THEN meta_path.metadata ELSE NoMetadata
      first == <<write_entry(Dot, Dot, MetaGet(metadata, Dot), TRUE, FALSE, tree)>>
      walked == WalkFrom(os_walk(tree, Root, rev), 1, tree, metadata, first, {Dot})
      linked == SymlinksFrom(1, tree, metadata, walked.buf, walked.written)
  IN  Append(linked.buf, Trailer)

\* The bytes a record takes in the archive: header, name and its NUL, padding
\* to 4 bytes, data, padding to 4 bytes.
CPIO_HEADER_LEN == 110
RecordLen(r) ==
  LET n == CPIO_HEADER_LEN + Len(r.name) + 1
      pad == (4 - (n % 4)) % 4
      fsize == Len(r.data)
      fpad == IF fsize = 0 THEN 0 ELSE (4 - (fsize % 4)) % 4
  IN  n + pad + fsize + fpad

\* The offset in buf at which record i starts.
RECURSIVE OffsetOf(_, _)
OffsetOf(buf, i) == IF i = 1 THEN 0 ELSE OffsetOf(buf, i - 1) + RecordLen(buf[i - 1])

\* ---- the archives read
\* Entries of an archive at most, before its trailer.
MaxEntries == 3

\* A record as `find . | cpio -o -H newc` writes it, owned by uid 1000.
Entry(name, mode, data) ==
  [magic |-> NEWC,
   hdr |-> [ino |-> 7, mode |-> mode, uid |-> 1000, gid |-> 100, nlink |-> 2,
            mtime |-> 5, filesize |-> Len(data), devmajor |-> 8, devminor |-> 1,
            rdevmajor |-> 4, rdevminor |-> 2, namesize |-> Len(name) + 1, check |-> 0],
   name |-> name,
   data |-> data]

\* The entries the archives are made of: the root, the init script, bin with
\* a symlink and a data file in it, two top-level files whose names differ by
\* a leading dot, an empty directory, a script with CRLF line ends.
Pool ==
  <<Entry(Dot, S_IFDIR + 493, <<>>),
    Entry(n_init, S_IFREG + 493, <<"#", "!", "/", "s", "h", "LF", "x">>),
    Entry(n_bin, S_IFDIR + 493, <<>>),
    Entry(n_bin_sh, S_IFLNK + 511, <<"b", "b">>),
    Entry(n_bin_x, S_IFREG + 420, <<"x">>),
    Entry(n_dot_rc, S_IFREG + 420, <<"x">>),
    Entry(n_rc, S_IFREG + 384, <<"y">>),
    Entry(n_etc, S_IFDIR + 448, <<>>),
    Entry(n_a_sh, S_IFREG + 420, <<"x", "CR", "LF">>)>>

\* The entries of the pool picked by the indices ix, in the order of the pool.
RECURSIVE Picked(_, _)
Picked(ix, from) ==
  IF from > Len(Pool) THEN <<>>
  ELSE (IF from \in ix THEN <<Pool[from]>> ELSE <<>>) \o Picked(ix, from + 1)

\* Record k of the archive carrying the magic of the old portable format
\* (k = 0: none).
Corrupt(recs, k) ==
  [i \in 1..Len(recs) |-> IF i = k THEN [recs[i] EXCEPT !.magic = "070707"] ELSE recs[i]]

\* The archive recs ending early.  "trailer": the input ends before the
\* trailer, at the end of the last entry or less than a header after it;
\* "data": it ends inside the data of the last entry, whose slice
\* data[file_start:file_end] is then one byte short.
Cut(recs, how) ==
  LET n == Len(recs) - 1
      body == SubSeq(recs, 1, n)
  IN  IF how = "whole" THEN recs
      ELSE IF how = "trailer" \/ n = 0 \/ body[n].data = <<>> THEN body
      ELSE [body EXCEPT ![n].data = SubSeq(@, 1, Len(@) - 1)]

\* An archive: some entries of the pool, then the trailer; whole or cut.
Archives ==
  {Cut(Corrupt(Picked(ix, 1) \o <<Trailer>>, k), how) :
     ix \in {s \in SUBSET (1..Len(Pool)) : Cardinality(s) <= MaxEntries},
     k \in 0..(MaxEntries + 1),
     how \in {"whole", "trailer", "data"}}

\* The compressions of boot/initrd.img: the two that are read, and another.
Formats == {"gzip", "zstd", "xz"}

\* _decompress_initrd_stream: gzip by its magic 1f 8b, anything else is given
\* to zstd, which raises on what is no zstd frame.
Decompresses(file) == file.format \in {"gzip", "zstd"}

NoInitrd == [format |-> "zstd", recs |-> <<>>]

\* The worker threads running _build_cpio_newc_from_dir at the same time,
\* thread t on the extracted ramdisk of job t.  A directory is named by the
\* number of its job; None is the directory the service was started in.
MaxPacks == 2
Packs == 1..MaxPacks
NothingRead == [sidecar |-> None, walk |-> None]

\* ------------------------------------------------------ Job.stop and run
\* One Job followed await by await: its fields, the image of its build, its
\* entry in _jobs, the position and the on_finish arguments of the two
\* coroutines that can run on_finish (the run task, and a caller of stop()),
\* and what on_finish has done so far (statuses, events, moves, stored).
Coroutines == {"run", "stop"}
Started(ws) ==
  [status |-> IN_PROGRESS, install_progress |-> 0, socket |-> ws,
   modified_iso |-> FALSE, task |-> TRUE, stop_requested |-> FALSE,
   image |-> "none", listed |-> TRUE,
   pc |-> [c \in Coroutines |-> IF c = "run" THEN "download" ELSE "idle"],
   args |-> [c \in Coroutines |-> [status |-> None, progress |-> 0]],
   statuses |-> <<>>, events |-> <<>>, moves |-> 0, stored |-> 0, late |-> FALSE]
NotStarted == [Started(FALSE) EXCEPT !.pc = [c \in Coroutines |-> "off"], !.task = FALSE,
                                     !.listed = FALSE, !.status = PENDING]

\* No ramdisk is being converted.
CodecOff ==
  /\ initrd = NoInitrd
  /\ ramdisk = EmptyTree
  /\ sidecar = NoSidecar
  /\ ok = "unset"
  /\ cpio_bytes = <<>>
  /\ cpioPc = "off"
  /\ cwd = None
  /\ old_cwd = [t \in Packs |-> None]
  /\ read_from = [t \in Packs |-> NothingRead]

\* ------------------------------------------------------- image assembly
\* Builds running create_modified_iso at the same time.
MaxBuilds == 2
Builds == 1..MaxBuilds

\* An empty work_dir/extracted; no image in work_dir/repacked.
NoTree == [files |-> {}, initrd |-> "none", rootfs |-> "none", builder |-> None]
NoImage == [built |-> FALSE, initrd |-> "none", rootfs |-> None]

\* __init__, line 99: the name of modified_iso_path, which has no job id in
\* it; create_modified_iso never writes that file.
default_name == [prefix |-> "modified", job |-> None]

\* No path is recorded.
NoPath == [dir |-> <<"none">>, name |-> default_name]

\* No build is running.
IsoOff ==
  /\ isoPc = [b \in Builds |-> "off"]
  /\ coroutine_status = [b \in Builds |-> "unset"]
  /\ extracted = [b \in Builds |-> NoTree]
  /\ ram_disk = [b \in Builds |-> "none"]
  /\ repacked_ram_disk = [b \in Builds |-> "none"]
  /\ squashfs_dir = [b \in Builds |-> "none"]
  /\ tmp_squash = None
  /\ out = [b \in Builds |-> NoImage]
  /\ spawned = [b \in Builds |-> {}]
  /\ repacked_dir = [b \in Builds |-> {}]
  /\ final_dir = {}
  /\ modified_iso_path = [b \in Builds |-> [dir |-> <<"job", b>>, name |-> default_name]]
  /\ iso_by_job = [b \in Builds |-> NoPath]

\* --------------------------------------------------------------------- Init
InitCommon ==
  /\ resp = [r \in JobIds |-> 0]
  /\ jobs = {}
  /\ status = [j \in JobIds |-> PENDING]
  /\ install_progress = [j \in JobIds |-> 0]
  /\ socket = [j \in JobIds |-> None]
  /\ lockHeld = [j \in JobIds |-> FALSE]
  /\ taskPc = [j \in JobIds |-> "none"]
  /\ stage = [j \in JobIds |-> 0]
  /\ dl = [j \in JobIds |-> [done |-> 0, size |-> 0]]
  /\ pendingUpd = [j \in JobIds |-> {}]
  /\ updCalls = [j \in JobIds |-> 0]
  /\ exc = [j \in JobIds |-> FALSE]
  /\ manifestDisk = EmptyManifest
  /\ jobCache = [j \in JobIds |-> EmptyManifest]
  /\ wsJob = [c \in Clients |-> None]
  /\ chan = [c \in Clients |-> <<>>]
  /\ chanOpen = [c \in Clients |-> FALSE]
  /\ overlap = FALSE
  /\ InitStore

\* The service with MaxRequests requests to come and no websocket client.
Init ==
  /\ InitCommon
  /\ reqPc = [r \in JobIds |-> "idle"]
  /\ wsPc = [c \in Clients |-> "off"]
  /\ cmPc = [i \in 1..MaxCaches |-> "off"]
  /\ CodecOff
  /\ packPc = [t \in Packs |-> "off"]
  /\ lifecycle = NotStarted
  /\ IsoOff

\* The service with MaxObserved requests to come and MaxClients websocket
\* clients.
InitWs ==
  /\ InitCommon
  /\ reqPc = [r \in JobIds |-> IF r <= MaxObserved THEN "idle" ELSE "off"]
  /\ wsPc = [c \in Clients |-> "idle"]
  /\ cmPc = [i \in 1..MaxCaches |-> "off"]
  /\ CodecOff
  /\ packPc = [t \in Packs |-> "off"]
  /\ lifecycle = NotStarted
  /\ IsoOff

\* ------------------------------------------------- installer_iso_route
jobVars == <<jobs, status, install_progress, socket, lockHeld, taskPc,
             stage, dl, pendingUpd, updCalls, exc>>

\* Requests are numbered in the order in which they arrive; each carries a
\* payload that parses and validates (validation is not part of this model).
Arrives(r) ==
  /\ reqPc[r] = "idle"
  /\ Cardinality(InFlight) < MaxInFlight
  /\ \A q \in JobIds : q < r => reqPc[q] \notin {"idle", "off"}
  /\ overlap' = (overlap \/ InFlight # {})

\* First check_max_jobs fails: 429.
SubmitRejectFirst(r) ==
  /\ Arrives(r)
  /\ RegistryFree
  /\ ~below_max_jobs
  /\ reqPc' = [reqPc EXCEPT ![r] = "done"]
  /\ resp' = [resp EXCEPT ![r] = 429]
  /\ UNCHANGED <<codecVars, lifecycle, isoVars, storeVars, jobVars, cacheVars, wsVars, chan>>

\* First check_max_jobs passes; the route awaits the request body.
SubmitArrive(r) ==
  /\ Arrives(r)
  /\ RegistryFree
  /\ below_max_jobs
  /\ reqPc' = [reqPc EXCEPT ![r] = "body"]
  /\ UNCHANGED <<codecVars, lifecycle, isoVars, storeVars, resp, jobVars, cacheVars, wsVars, chan>>

\* Second check_max_jobs fails: 429.
SubmitRejectSecond(r) ==
  /\ reqPc[r] = "body"
  /\ RegistryFree
  /\ ~RecheckPasses
  /\ reqPc' = [reqPc EXCEPT ![r] = "done"]
  /\ resp' = [resp EXCEPT ![r] = 429]
  /\ UNCHANGED <<codecVars, lifecycle, isoVars, storeVars, overlap, jobVars, cacheVars, wsVars, chan>>

\* Second check passes: Job(info), then Job.start: add_job, create_task(run),
\* and the route sleeps 0.3 s.  Nothing suspends between the check and add_job.
SubmitStart(r) ==
  /\ reqPc[r] = "body"
  /\ RegistryFree
  /\ RecheckPasses
  /\ jobs' = jobs \cup {r}
  /\ taskPc' = [taskPc EXCEPT ![r] = "cache"]
  /\ reqPc' = [reqPc EXCEPT ![r] = "sleep"]
  /\ UNCHANGED <<codecVars, lifecycle, isoVars, storeVars, resp, overlap, status, install_progress, socket, lockHeld, stage,
                 dl, pendingUpd, updCalls, exc, cacheVars, wsVars, chan>>

\* The sleep of Job.start ends; the route answers 201 with the job id.
SubmitRespond(r) ==
  /\ reqPc[r] = "sleep"
  /\ reqPc' = [reqPc EXCEPT ![r] = "done"]
  /\ resp' = [resp EXCEPT ![r] = 201]
  /\ UNCHANGED <<codecVars, lifecycle, isoVars, storeVars, overlap, jobVars, cacheVars, wsVars, chan>>

\* ------------------------------------------------------------------ Job.run
\* on_update called without await: the pipeline goes on while the update task
\* it created is still to run.
AwaitSkipped(j) == TRUE

\* `await on_update(...)`: the lambda returns the Task it created and the caller
\* awaits it, so the pipeline resumes only once that update_progress has run.
AwaitDone(j) == pendingUpd[j] = {}

\* The update_progress task that on_update(...) creates, with progress p; k is
\* the rank of the call among the calls of this step.
NewUpdate(j, p, k) == [n |-> updCalls[j] + k, progress |-> p]

\* One step of the task of job j: its new position, status and progress, the
\* update tasks it leaves pending, the number of update_progress calls it made
\* and the messages its own (awaited) update_progress calls sent.
TaskStep(j, pc2, st2, prog2, pend2, calls, evs) ==
  /\ taskPc' = [taskPc EXCEPT ![j] = pc2]
  /\ status' = [status EXCEPT ![j] = st2]
  /\ install_progress' = [install_progress EXCEPT ![j] = prog2]
  /\ pendingUpd' = [pendingUpd EXCEPT ![j] = pend2]
  /\ updCalls' = [updCalls EXCEPT ![j] = @ + calls]
  /\ chan' = IF socket[j] # None /\ chanOpen[socket[j]]
             THEN [chan EXCEPT ![socket[j]] = @ \o evs]
             ELSE chan

\* on_finish(FAILED, 0) up to its first suspension: update_status(FAILED), then
\* update_progress(0) and its send.
FinishFailed(j) ==
  TaskStep(j, "remove", FAILED, 0, pendingUpd[j], 1,
           <<ProgressEvent(0, FAILED, updCalls[j] + 1)>>)

\* run, line 91: CacheManager.new() raises (the cache directory cannot be
\* made, the manifest cannot be written): the exception leaves run.
RunCacheRaise(j) ==
  /\ taskPc[j] = "cache"
  /\ Cardinality(Resumed) < MaxResumed
  /\ taskPc' = [taskPc EXCEPT ![j] = "raised"]
  /\ exc' = [exc EXCEPT ![j] = TRUE]
  /\ UNCHANGED <<codecVars, lifecycle, isoVars, storeVars, reqVars, jobs, status, install_progress, socket, lockHeld,
                 stage, dl, pendingUpd, updCalls, cacheVars, wsVars, chan>>

\* run, lines 91-97: the cache loads manifest.json, update_status(IN_PROGRESS),
\* then the job lock is taken and ProxmoxISO.new() awaits the downloads page.
RunCacheInit(j) ==
  /\ taskPc[j] = "cache"
  /\ Cardinality(Resumed) < MaxResumed
  /\ ~lockHeld[j]
  /\ jobCache' = [jobCache EXCEPT ![j] = manifestDisk]
  /\ lockHeld' = [lockHeld EXCEPT ![j] = TRUE]
  /\ TaskStep(j, "new", IN_PROGRESS, install_progress[j], pendingUpd[j], 0, <<>>)
  /\ UNCHANGED <<codecVars, lifecycle, isoVars, storeVars, reqVars, jobs, socket, stage, dl, exc, manifestDisk, wsVars>>

\* ProxmoxISO.new() raises (the page does not parse), or the page could not be
\* fetched: the url is "" and download() raises ValueError.  The lock is
\* released by `async with`; the exception leaves run.
RunNewRaise(j) ==
  /\ taskPc[j] = "new"
  /\ taskPc' = [taskPc EXCEPT ![j] = "raised"]
  /\ lockHeld' = [lockHeld EXCEPT ![j] = FALSE]
  /\ exc' = [exc EXCEPT ![j] = TRUE]
  /\ UNCHANGED <<codecVars, lifecycle, isoVars, storeVars, reqVars, jobs, status, install_progress, socket,
                 stage, dl, pendingUpd, updCalls, cacheVars, wsVars, chan>>

\* ProxmoxISO.new() returns a valid url; the lock is released; download()
\* calls on_update(0, TOTAL_STEPS, "Starting Download").
RunNew(j) ==
  /\ taskPc[j] = "new"
  /\ lockHeld' = [lockHeld EXCEPT ![j] = FALSE]
  /\ dl' = [dl EXCEPT ![j] = [done |-> 0, size |-> 0]]
  /\ TaskStep(j, "download", status[j], install_progress[j],
              pendingUpd[j] \cup {NewUpdate(j, calculate_percentage(0, TOTAL_STEPS), 1)},
              1, <<>>)
  /\ UNCHANGED <<codecVars, lifecycle, isoVars, storeVars, reqVars, jobs, socket, stage, exc, cacheVars, wsVars>>

\* The websocket handlers queued on the job lock.  asyncio.Lock is fair: while
\* it has waiters a newcomer queues behind them even if the lock is free.
LockWaiters(j) ==
  {c \in Clients : wsPc[c] \in {"attachWait", "detachWait"} /\ wsJob[c] = j}

\* update_progress letting the exception of a failed send escape: the progress
\* is stored, then the exception ends the pipeline task.
UpdateTaskSendFatal(j) ==
  /\ ~lockHeld[j]
  /\ LockWaiters(j) = {}
  /\ \E u \in pendingUpd[j] :
       /\ pendingUpd' = [pendingUpd EXCEPT ![j] = @ \ {u}]
       /\ install_progress' = [install_progress EXCEPT ![j] = u.progress]
       /\ chan' = Sent(chan, socket[j], ProgressEvent(u.progress, status[j], u.n))
       /\ taskPc' = IF socket[j] # None /\ ~chanOpen[socket[j]]
                    THEN [taskPc EXCEPT ![j] = "raised"] ELSE taskPc
  /\ UNCHANGED <<codecVars, lifecycle, isoVars, storeVars, reqVars, jobs, status, socket, lockHeld, stage, dl,
                 updCalls, exc, cacheVars, wsVars>>

\* The task created by an on_update lambda runs update_progress: the progress
\* is stored under the job lock and, if a socket is attached, sent.
UpdateTask(j) ==
  /\ ~lockHeld[j]
  /\ LockWaiters(j) = {}
  /\ \E u \in pendingUpd[j] :
       /\ pendingUpd' = [pendingUpd EXCEPT ![j] = @ \ {u}]
       /\ install_progress' = [install_progress EXCEPT ![j] = u.progress]
       /\ chan' = Sent(chan, socket[j], ProgressEvent(u.progress, status[j], u.n))
  /\ UNCHANGED <<codecVars, lifecycle, isoVars, storeVars, reqVars, jobs, status, socket, lockHeld, taskPc, stage, dl,
                 updCalls, exc, cacheVars, wsVars>>

\* download() returned True; run, lines 112-125: update_progress(4/13) and the
\* first on_update(5, ...) of create_modified_iso.
AfterDownload(j) ==
  /\ stage' = [stage EXCEPT ![j] = 5]
  /\ dl' = [dl EXCEPT ![j] = [done |-> 0, size |-> 0]]
  /\ TaskStep(j, "stage", status[j], calculate_percentage(4, 13),
              pendingUpd[j] \cup {NewUpdate(j, calculate_percentage(5, 14), 2)},
              2, <<ProgressEvent(calculate_percentage(4, 13), status[j], updCalls[j] + 1)>>)

\* ISODownloader.run: the image is on disk with the expected hash; no download.
DownloadSkip(j) ==
  /\ taskPc[j] = "download"
  /\ AwaitDone(j)
  /\ ~lockHeld[j]
  /\ dl[j].done = 0
  /\ AfterDownload(j)
  /\ UNCHANGED <<codecVars, lifecycle, isoVars, storeVars, reqVars, jobs, socket, lockHeld, exc, cacheVars, wsVars>>

\* _single_downloader_async flushes a buffer: on_update(downloaded, size, ...).
\* size is the Content-Length (0 when the header is missing), read once.
DownloadChunk(j) ==
  /\ taskPc[j] = "download"
  /\ AwaitDone(j)
  /\ dl[j].done < MaxChunks
  /\ \E sz \in IF dl[j].done = 0 THEN {0, MaxChunks} ELSE {dl[j].size} :
       /\ dl' = [dl EXCEPT ![j] = [done |-> dl[j].done + 1, size |-> sz]]
       /\ TaskStep(j, "download", status[j], install_progress[j],
                   pendingUpd[j] \cup {NewUpdate(j, calculate_percentage(dl[j].done + 1, sz), 1)},
                   1, <<>>)
  /\ UNCHANGED <<codecVars, lifecycle, isoVars, storeVars, reqVars, jobs, socket, lockHeld, stage, exc, cacheVars, wsVars>>

\* The download is complete and its hash matches: verified.
DownloadVerified(j) ==
  /\ taskPc[j] = "download"
  /\ AwaitDone(j)
  /\ ~lockHeld[j]
  /\ dl[j].done = MaxChunks
  /\ AfterDownload(j)
  /\ UNCHANGED <<codecVars, lifecycle, isoVars, storeVars, reqVars, jobs, socket, lockHeld, exc, cacheVars, wsVars>>

\* ISODownloader.run catches an error (HEAD or stream failure, hash mismatch):
\* verified is False, download() returns False, run calls on_finish(FAILED, 0).
DownloadFail(j) ==
  /\ taskPc[j] = "download"
  /\ AwaitDone(j)
  /\ ~lockHeld[j]
  /\ dl' = [dl EXCEPT ![j] = [done |-> 0, size |-> 0]]
  /\ exc' = [exc EXCEPT ![j] = TRUE]
  /\ FinishFailed(j)
  /\ UNCHANGED <<codecVars, lifecycle, isoVars, storeVars, reqVars, jobs, socket, lockHeld, stage, cacheVars, wsVars>>

\* The steps of create_modified_iso whose tool reports failure by its result:
\* unpack_initrd (7), repack_initrd (9), unsquashfs (11), mksquashfs (15),
\* xorriso_repack_iso (16); the function then returns None.
ReturnsNone == {7, 9, 11, 15, 16}

\* The work of step stage[j] is done; create_modified_iso calls the next
\* on_update(stage + 1, ...).
StageOk(j) ==
  /\ taskPc[j] = "stage"
  /\ AwaitDone(j)
  /\ stage[j] < TOTAL_STEPS
  /\ stage' = [stage EXCEPT ![j] = @ + 1]
  /\ TaskStep(j, "stage", status[j], install_progress[j],
              pendingUpd[j] \cup {NewUpdate(j, calculate_percentage(stage[j] + 1, 14), 1)},
              1, <<>>)
  /\ UNCHANGED <<codecVars, lifecycle, isoVars, storeVars, reqVars, jobs, socket, lockHeld, dl, exc, cacheVars, wsVars>>

\* The tool of the step reports failure: create_modified_iso returns None and
\* run calls on_finish(FAILED, 0).
StageReturnsNone(j) ==
  /\ taskPc[j] = "stage"
  /\ AwaitDone(j)
  /\ ~lockHeld[j]
  /\ stage[j] \in ReturnsNone
  /\ stage' = [stage EXCEPT ![j] = 0]
  /\ FinishFailed(j)
  /\ UNCHANGED <<codecVars, lifecycle, isoVars, storeVars, reqVars, jobs, socket, lockHeld, dl, exc, cacheVars, wsVars>>

\* The step raises (a file helper, or a command run with check=True): the
\* except clause of run sets modified_iso_path to None; on_finish(FAILED, 0).
StageRaises(j) ==
  /\ taskPc[j] = "stage"
  /\ AwaitDone(j)
  /\ ~lockHeld[j]
  /\ stage[j] < TOTAL_STEPS
  /\ stage' = [stage EXCEPT ![j] = 0]
  /\ exc' = [exc EXCEPT ![j] = TRUE]
  /\ FinishFailed(j)
  /\ UNCHANGED <<codecVars, lifecycle, isoVars, storeVars, reqVars, jobs, socket, lockHeld, dl, cacheVars, wsVars>>

\* on_update(TOTAL_STEPS, "Finished...") has run; create_modified_iso returns
\* the image path and run awaits cache.put_answer_bytes.
StageLast(j) ==
  /\ taskPc[j] = "stage"
  /\ AwaitDone(j)
  /\ stage[j] = TOTAL_STEPS
  /\ stage' = [stage EXCEPT ![j] = 0]
  /\ TaskStep(j, "put", status[j], install_progress[j], pendingUpd[j], 0, <<>>)
  /\ UNCHANGED <<codecVars, lifecycle, isoVars, storeVars, reqVars, jobs, socket, lockHeld, dl, exc, cacheVars, wsVars>>

\* put_answer_bytes records by_job[job] in the job's manifest copy and writes
\* that copy over manifest.json; then update_progress(100, "Job completed ...").
RunPutAnswer(j) ==
  /\ taskPc[j] = "put"
  /\ ~lockHeld[j]
  /\ LET m == [jobCache[j] EXCEPT !.by_job = @ \cup {j}]
     IN  /\ jobCache' = [jobCache EXCEPT ![j] = m]
         /\ manifestDisk' = m
  /\ TaskStep(j, "finish", status[j], 100, pendingUpd[j], 1,
              <<ProgressEvent(100, status[j], updCalls[j] + 1)>>)
  /\ UNCHANGED <<codecVars, lifecycle, isoVars, storeVars, reqVars, jobs, socket, lockHeld, stage, dl, exc, wsVars>>

\* put_answer_bytes raises: caught by the except clause of run, which sets
\* modified_iso_path to None; on_finish(FAILED, 0).
RunPutAnswerRaises(j) ==
  /\ taskPc[j] = "put"
  /\ ~lockHeld[j]
  /\ exc' = [exc EXCEPT ![j] = TRUE]
  /\ FinishFailed(j)
  /\ UNCHANGED <<codecVars, lifecycle, isoVars, storeVars, reqVars, jobs, socket, lockHeld, stage, dl, cacheVars, wsVars>>

\* ------------------------------------------------------------- Job.on_finish
\* on_finish(): update_status(COMPLETED), update_progress(100); then the image
\* is moved and set_iso_path awaits a worker thread.
FinishCompleted(j) ==
  /\ taskPc[j] = "finish"
  /\ ~lockHeld[j]
  /\ TaskStep(j, "move", COMPLETED, 100, pendingUpd[j], 1,
              <<ProgressEvent(100, COMPLETED, updCalls[j] + 1)>>)
  /\ UNCHANGED <<codecVars, lifecycle, isoVars, storeVars, reqVars, jobs, socket, lockHeld, stage, dl, exc, cacheVars, wsVars>>

\* set_iso_path records iso_by_job[job] in the job's manifest copy and writes
\* that copy over manifest.json.
FinishStored(j) ==
  /\ taskPc[j] = "move"
  /\ LET m == [jobCache[j] EXCEPT !.iso_by_job = @ \cup {j}]
     IN  /\ jobCache' = [jobCache EXCEPT ![j] = m]
         /\ manifestDisk' = m
  /\ TaskStep(j, "remove", status[j], install_progress[j], pendingUpd[j], 0, <<>>)
  /\ UNCHANGED <<codecVars, lifecycle, isoVars, storeVars, reqVars, jobs, socket, lockHeld, stage, dl, exc, wsVars>>

\* move_iso_to_final_location or set_iso_path raises: the except clause of
\* on_finish calls update_status(FAILED) and update_progress(0).
FinishMoveRaises(j) ==
  /\ taskPc[j] = "move"
  /\ ~lockHeld[j]
  /\ exc' = [exc EXCEPT ![j] = TRUE]
  /\ FinishFailed(j)
  /\ UNCHANGED <<codecVars, lifecycle, isoVars, storeVars, reqVars, jobs, socket, lockHeld, stage, dl, cacheVars, wsVars>>

\* remove_job; no socket attached, so the task ends.
FinishRemove(j) ==
  /\ taskPc[j] = "remove"
  /\ RegistryFree
  /\ socket[j] = None
  /\ jobs' = jobs \ {j}
  /\ taskPc' = [taskPc EXCEPT ![j] = "done"]
  /\ updCalls' = [updCalls EXCEPT ![j] = 0]
  /\ UNCHANGED <<codecVars, lifecycle, isoVars, storeVars, reqVars, status, install_progress, socket, lockHeld, stage,
                 dl, pendingUpd, exc, cacheVars, wsVars, chan>>

\* remove_job; a socket is attached: on_finish awaits its close().
FinishRemoveClose(j) ==
  /\ taskPc[j] = "remove"
  /\ RegistryFree
  /\ socket[j] # None
  /\ jobs' = jobs \ {j}
  /\ chanOpen' = [chanOpen EXCEPT ![socket[j]] = FALSE]
  /\ taskPc' = [taskPc EXCEPT ![j] = "close"]
  /\ UNCHANGED <<codecVars, lifecycle, isoVars, storeVars, reqVars, status, install_progress, socket, lockHeld, stage,
                 dl, pendingUpd, updCalls, exc, cacheVars, wsPc, wsJob, chan>>

\* close() returned: _socket = None, and the task ends.
FinishClosed(j) ==
  /\ taskPc[j] = "close"
  /\ socket' = [socket EXCEPT ![j] = None]
  /\ taskPc' = [taskPc EXCEPT ![j] = "done"]
  /\ updCalls' = [updCalls EXCEPT ![j] = 0]
  /\ UNCHANGED <<codecVars, lifecycle, isoVars, storeVars, reqVars, jobs, status, install_progress, lockHeld, stage,
                 dl, pendingUpd, exc, cacheVars, wsVars, chan>>

\* ------------------------------------------------- installer_iso_ws_route
\* The route attaching without sending the snapshot.
AttachSocketNoSnapshot(c, j) ==
  /\ socket' = [socket EXCEPT ![j] = c]
  /\ chan' = chan

\* Job.attach_socket, then the snapshot send_socket_update of the route: the
\* socket is stored and the job's current status and progress are sent on it.
AttachSocket(c, j) ==
  /\ socket' = [socket EXCEPT ![j] = c]
  /\ chan' = [chan EXCEPT ![c] = Append(@, SnapshotEvent(j))]

\* The job ids the websocket clients ask for: those the route hands out.  An
\* id is unknown to get_job before its job is registered and after it finished.
WsTargets == {j \in JobIds : reqPc[j] # "off"}

\* Websockets are numbered in the order in which they connect.
Connects(c) ==
  /\ wsPc[c] = "idle"
  /\ \A d \in Clients : d < c => wsPc[d] # "idle"

\* accept, receive the job id, get_job: the job is unknown or already has a
\* socket: close(1008).
WsReject(c, j) ==
  /\ Connects(c)
  /\ RegistryFree
  /\ j \notin jobs \/ socket[j] # None
  /\ wsPc' = [wsPc EXCEPT ![c] = "closed"]
  /\ wsJob' = [wsJob EXCEPT ![c] = j]
  /\ UNCHANGED <<codecVars, lifecycle, isoVars, storeVars, reqVars, jobVars, cacheVars, chan, chanOpen>>

\* The job is registered and has no socket, and its lock is free:
\* attach_socket and the snapshot.
WsConnect(c, j) ==
  /\ Connects(c)
  /\ RegistryFree
  /\ j \in jobs /\ socket[j] = None
  /\ ~lockHeld[j]
  /\ wsPc' = [wsPc EXCEPT ![c] = "open"]
  /\ wsJob' = [wsJob EXCEPT ![c] = j]
  /\ chanOpen' = [chanOpen EXCEPT ![c] = TRUE]
  /\ AttachSocket(c, j)
  /\ UNCHANGED <<codecVars, lifecycle, isoVars, storeVars, reqVars, jobs, status, install_progress, lockHeld, taskPc,
                 stage, dl, pendingUpd, updCalls, exc, cacheVars>>

\* The job is registered and has no socket, but run holds the job lock (it is
\* in ProxmoxISO.new): attach_socket waits for the lock.
WsConnectWait(c, j) ==
  /\ Connects(c)
  /\ RegistryFree
  /\ j \in jobs /\ socket[j] = None
  /\ lockHeld[j]
  /\ wsPc' = [wsPc EXCEPT ![c] = "attachWait"]
  /\ wsJob' = [wsJob EXCEPT ![c] = j]
  /\ chanOpen' = [chanOpen EXCEPT ![c] = TRUE]
  /\ UNCHANGED <<codecVars, lifecycle, isoVars, storeVars, reqVars, jobVars, cacheVars, chan>>

\* The lock is free again: the waiting attach_socket stores its socket, and
\* the route sends the snapshot.
WsAttach(c) ==
  /\ wsPc[c] = "attachWait"
  /\ ~lockHeld[wsJob[c]]
  /\ wsPc' = [wsPc EXCEPT ![c] = "open"]
  /\ AttachSocket(c, wsJob[c])
  /\ UNCHANGED <<codecVars, lifecycle, isoVars, storeVars, reqVars, jobs, status, install_progress, lockHeld, taskPc,
                 stage, dl, pendingUpd, updCalls, exc, cacheVars, wsJob, chanOpen>>

\* The connection of the client goes away while the route waits in
\* receive_text; the route has not been resumed yet.  A send on it raises.
WsDrop(c) ==
  /\ wsPc[c] = "open"
  /\ chanOpen[c]
  /\ chanOpen' = [chanOpen EXCEPT ![c] = FALSE]
  /\ UNCHANGED <<codecVars, lifecycle, isoVars, storeVars, reqVars, jobVars, cacheVars, wsPc, wsJob, chan>>

\* detach_socket leaving Job._socket as it is.
detach_socket_skipped(j) == socket' = socket

\* Job.detach_socket: under the job lock, _socket = None.
detach_socket(j) == socket' = [socket EXCEPT ![j] = None]

\* receive_text raises WebSocketDisconnect (the client left, or the server
\* closed the socket): detach_socket clears Job._socket under the job lock.
WsDisconnect(c) ==
  /\ wsPc[c] = "open"
  /\ ~lockHeld[wsJob[c]]
  /\ wsPc' = [wsPc EXCEPT ![c] = "closed"]
  /\ chanOpen' = [chanOpen EXCEPT ![c] = FALSE]
  /\ chan' = [chan EXCEPT ![c] = <<>>]
  /\ detach_socket(wsJob[c])
  /\ UNCHANGED <<codecVars, lifecycle, isoVars, storeVars, reqVars, jobs, status, install_progress, lockHeld, taskPc,
                 stage, dl, pendingUpd, updCalls, exc, cacheVars, wsJob>>

\* The same while run holds the job lock: detach_socket waits for it.
WsDisconnectWait(c) ==
  /\ wsPc[c] = "open"
  /\ lockHeld[wsJob[c]]
  /\ wsPc' = [wsPc EXCEPT ![c] = "detachWait"]
  /\ chanOpen' = [chanOpen EXCEPT ![c] = FALSE]
  /\ UNCHANGED <<codecVars, lifecycle, isoVars, storeVars, reqVars, jobVars, cacheVars, wsJob, chan>>

\* The lock is free again: the waiting detach_socket clears Job._socket.
WsDetach(c) ==
  /\ wsPc[c] = "detachWait"
  /\ ~lockHeld[wsJob[c]]
  /\ wsPc' = [wsPc EXCEPT ![c] = "closed"]
  /\ chan' = [chan EXCEPT ![c] = <<>>]
  /\ detach_socket(wsJob[c])
  /\ UNCHANGED <<codecVars, lifecycle, isoVars, storeVars, reqVars, jobs, status, install_progress, lockHeld, taskPc,
                 stage, dl, pendingUpd, updCalls, exc, cacheVars, wsJob, chanOpen>>

\* ============================================== CacheManager: operations
\* ----------------------------------------------------- CacheManager.new
\* CacheManager objects are numbered in the order of their construction.
Constructs(i) ==
  /\ cmPc[i] = "none"
  /\ \A k \in Caches : k < i => cmPc[k] \notin {"none"}

\* new(): manifest.json exists and parses.  With the current version what
\* was read becomes _manifest; with another one the fresh manifest of __init__
\* is persisted.  (manifestFile.m is the manifest whose text the file holds.)
CacheNewLoad(i) ==
  /\ Constructs(i)
  /\ manifestFile.st = "ok"
  /\ LET loaded == json_dumps(manifestFile.m) IN
       IF VersionMatches(loaded)
       THEN /\ cmManifest' = [cmManifest EXCEPT ![i] = json_loads(loaded)]
            /\ cmPc' = [cmPc EXCEPT ![i] = "idle"]
       ELSE /\ cmManifest' = [cmManifest EXCEPT ![i] = NewManifest]
            /\ cmPc' = [cmPc EXCEPT ![i] = "persist_write"]
  /\ cmOp' = [cmOp EXCEPT ![i] = [NoOp EXCEPT !.op = "new"]]
  /\ UNCHANGED <<codecVars, lifecycle, isoVars, orchVars, diskVars, cmOps, faults, crashes>>

\* new(): manifest.json is absent or does not parse: the fresh manifest of
\* __init__ is persisted.
CacheNewInit(i) ==
  /\ Constructs(i)
  /\ manifestFile.st # "ok"
  /\ cmManifest' = [cmManifest EXCEPT ![i] = NewManifest]
  /\ cmPc' = [cmPc EXCEPT ![i] = "persist_write"]
  /\ cmOp' = [cmOp EXCEPT ![i] = [NoOp EXCEPT !.op = "new"]]
  /\ UNCHANGED <<codecVars, lifecycle, isoVars, orchVars, diskVars, cmOps, faults, crashes>>

\* ------------------------------------------------------ _persist_manifest
\* tmp.write_text(json.dumps(_manifest)) has run in its worker thread.
PersistWrite(i) ==
  /\ cmPc[i] = "persist_write"
  /\ manifestTmp' = Written(cmManifest[i])
  /\ cmPc' = [cmPc EXCEPT ![i] = "persist_replace"]
  /\ UNCHANGED <<codecVars, lifecycle, isoVars, orchVars, blobFile, blobTmp, manifestFile, isoFile,
                 cmManifest, cmOp, cmOps, faults, crashes>>

\* What the operation returns once _persist_manifest is done.
Returned(op) ==
  IF op.op = "put_bytes" THEN <<op.digest, PathOf(op.digest)>>
  ELSE IF op.op = "set_iso_path" THEN <<op.path>>
  ELSE IF op.op = "link_job_to_hash" THEN PathOf(op.digest)
  ELSE Nothing

\* os.replace(tmp, manifest_path) has run; the lock is released and the
\* operation returns.
PersistReplace(i) ==
  /\ cmPc[i] = "persist_replace"
  /\ manifestTmp.st # "absent"
  /\ manifestFile' = manifestTmp
  /\ manifestTmp' = AbsentFile
  /\ cmPc' = [cmPc EXCEPT ![i] = "idle"]
  /\ cmOp' = [cmOp EXCEPT ![i].ret = Returned(cmOp[i])]
  /\ UNCHANGED <<codecVars, lifecycle, isoVars, orchVars, blobFile, blobTmp, isoFile, cmManifest, cmOps,
                 faults, crashes>>

\* os.replace finds no manifest.json.tmp (another CacheManager has renamed
\* it): FileNotFoundError leaves the operation; if that is new(), no object
\* is returned.
PersistReplaceRaises(i) ==
  /\ cmPc[i] = "persist_replace"
  /\ manifestTmp.st = "absent"
  /\ cmPc' = [cmPc EXCEPT ![i] = IF cmOp[i].op = "new" THEN "failed" ELSE "idle"]
  /\ cmOp' = [cmOp EXCEPT ![i].raised = TRUE]
  /\ UNCHANGED <<codecVars, lifecycle, isoVars, orchVars, diskVars, cmManifest, cmOps, faults, crashes>>

\* --------------------------------------------- put_bytes, put_answer_bytes
\* A caller starts an operation on an idle CacheManager.
Calls(i) ==
  /\ cmPc[i] = "idle"
  /\ cmOps < MaxCacheOps
  /\ cmOps' = cmOps + 1

\* put_bytes(job, data): the digest is computed; under the lock, if the blob
\* is there the mappings are recorded and _persist_manifest starts, else the
\* blob is first written to its .tmp file.
put_bytes(i, j, d) ==
  LET dg == sha256(d)
      op == [NoOp EXCEPT !.op = "put_bytes", !.job = j, !.data = d, !.digest = dg]
  IN  /\ Calls(i)
      /\ cmOp' = [cmOp EXCEPT ![i] = op]
      /\ IF PutDestExists(dg)
         THEN /\ cmManifest' = [cmManifest EXCEPT ![i] = RecordPut(@, j, dg)]
              /\ cmPc' = [cmPc EXCEPT ![i] = "persist_write"]
         ELSE /\ cmManifest' = cmManifest
              /\ cmPc' = [cmPc EXCEPT ![i] = "blob_write"]
      /\ UNCHANGED <<codecVars, lifecycle, isoVars, orchVars, diskVars, faults, crashes>>

\* tmp.write_bytes(data) has run.
PutWriteTmp(i) ==
  /\ cmPc[i] = "blob_write"
  /\ blobTmp' = blobTmp \cup {cmOp[i].digest}
  /\ cmPc' = [cmPc EXCEPT ![i] = "blob_replace"]
  /\ UNCHANGED <<codecVars, lifecycle, isoVars, orchVars, blobFile, manifestFile, manifestTmp, isoFile,
                 cmManifest, cmOp, cmOps, faults, crashes>>

\* os.replace(tmp, dest) has run; the mappings are recorded and
\* _persist_manifest starts.
PutReplace(i) ==
  /\ cmPc[i] = "blob_replace"
  /\ cmOp[i].digest \in blobTmp
  /\ blobFile' = [blobFile EXCEPT ![cmOp[i].digest] = cmOp[i].data]
  /\ blobTmp' = blobTmp \ {cmOp[i].digest}
  /\ cmManifest' = [cmManifest EXCEPT ![i] = RecordPut(@, cmOp[i].job, cmOp[i].digest)]
  /\ cmPc' = [cmPc EXCEPT ![i] = "persist_write"]
  /\ UNCHANGED <<codecVars, lifecycle, isoVars, orchVars, manifestFile, manifestTmp, isoFile, cmOp, cmOps,
                 faults, crashes>>

\* os.replace finds no .tmp file (another CacheManager storing the same bytes
\* has renamed it): FileNotFoundError leaves put_bytes.
PutReplaceRaises(i) ==
  /\ cmPc[i] = "blob_replace"
  /\ cmOp[i].digest \notin blobTmp
  /\ cmPc' = [cmPc EXCEPT ![i] = "idle"]
  /\ cmOp' = [cmOp EXCEPT ![i].raised = TRUE]
  /\ UNCHANGED <<codecVars, lifecycle, isoVars, orchVars, diskVars, cmManifest, cmOps, faults, crashes>>

\* -------------------------------------------------------- link_job_to_hash
\* link_job_to_hash without the look-up of the digest in by_hash.
LinkKnowsAll(m, dg) == TRUE

\* link_job_to_hash, lines 167-168: by_hash.get(digest) is not empty
LinkKnows(m, dg) == InByHash(m, dg)

\* link_job_to_hash(job, digest): for a digest without an entry in by_hash
\* None is returned at once; else by_job[jid] = digest and _persist_manifest
\* starts.
link_job_to_hash(i, j, dg) ==
  LET op == [NoOp EXCEPT !.op = "link_job_to_hash", !.job = j, !.digest = dg] IN
    /\ Calls(i)
    /\ cmOp' = [cmOp EXCEPT ![i] = op]
    /\ IF LinkKnows(cmManifest[i], dg)
       THEN /\ cmManifest' = [cmManifest EXCEPT ![i].by_job[j] = dg]
            /\ cmPc' = [cmPc EXCEPT ![i] = "persist_write"]
       ELSE /\ cmManifest' = cmManifest
            /\ cmPc' = cmPc
    /\ UNCHANGED <<codecVars, lifecycle, isoVars, orchVars, diskVars, faults, crashes>>

\* ------------------------------------------- delete_by_job, delete_by_hash
\* After by_hash.pop(digest): unlink the blob if its path was recorded and the
\* file is there, then _persist_manifest.
AfterPopHash(i, recorded, dg) ==
  cmPc' = [cmPc EXCEPT ![i] =
             IF recorded /\ blobFile[dg] # None THEN "unlink" ELSE "persist_write"]

\* delete_by_job(job) up to its first worker thread.
delete_by_job(i, j) ==
  LET m == cmManifest[i]
      dg == m.by_job[j]
      m1 == [m EXCEPT !.by_job[j] = NoDigest]
      op == [NoOp EXCEPT !.op = "delete_by_job", !.job = j, !.digest = dg]
  IN  /\ Calls(i)
      /\ cmOp' = [cmOp EXCEPT ![i] = op]
      /\ IF dg = NoDigest \/ StillRef(m1, dg)
         THEN /\ cmManifest' = [cmManifest EXCEPT ![i] = m1]
              /\ cmPc' = [cmPc EXCEPT ![i] = "persist_write"]
         ELSE /\ cmManifest' = [cmManifest EXCEPT ![i] = PopHash(m1, dg)]
              /\ AfterPopHash(i, InByHash(m, dg), dg)
      /\ UNCHANGED <<codecVars, lifecycle, isoVars, orchVars, diskVars, faults, crashes>>

\* delete_by_hash(digest) up to its first worker thread.
delete_by_hash(i, dg) ==
  LET m == cmManifest[i]
      m1 == [m EXCEPT !.by_job = [k \in CJobs |-> IF m.by_job[k] = dg THEN NoDigest ELSE m.by_job[k]]]
      op == [NoOp EXCEPT !.op = "delete_by_hash", !.digest = dg]
  IN  /\ Calls(i)
      /\ cmOp' = [cmOp EXCEPT ![i] = op]
      /\ cmManifest' = [cmManifest EXCEPT ![i] = PopHash(m1, dg)]
      /\ AfterPopHash(i, InByHash(m, dg), dg)
      /\ UNCHANGED <<codecVars, lifecycle, isoVars, orchVars, diskVars, faults, crashes>>

\* p.unlink() has run; _persist_manifest starts.
Unlink(i) ==
  /\ cmPc[i] = "unlink"
  /\ blobFile[cmOp[i].digest] # None
  /\ blobFile' = [blobFile EXCEPT ![cmOp[i].digest] = None]
  /\ cmPc' = [cmPc EXCEPT ![i] = "persist_write"]
  /\ UNCHANGED <<codecVars, lifecycle, isoVars, orchVars, blobTmp, manifestFile, manifestTmp, isoFile,
                 cmManifest, cmOp, cmOps, faults, crashes>>

\* p.unlink() raises (the file went away after p.exists()): logged;
\* _persist_manifest starts.
UnlinkRaises(i) ==
  /\ cmPc[i] = "unlink"
  /\ blobFile[cmOp[i].digest] = None
  /\ cmPc' = [cmPc EXCEPT ![i] = "persist_write"]
  /\ UNCHANGED <<codecVars, lifecycle, isoVars, orchVars, diskVars, cmManifest, cmOp, cmOps, faults, crashes>>

\* ------------------------------------------------------------ set_iso_path
\* set_iso_path(job, path, must_exist): p.exists() is looked up; the call
\* raises FileNotFoundError, or records the path and starts _persist_manifest.
set_iso_path(i, j, p, must_exist) ==
  LET op == [NoOp EXCEPT !.op = "set_iso_path", !.job = j, !.path = p,
                         !.must_exist = must_exist] IN
    /\ Calls(i)
    /\ IF IsoCheckFails(p, must_exist)
       THEN /\ cmOp' = [cmOp EXCEPT ![i] = [op EXCEPT !.raised = TRUE]]
            /\ cmPc' = cmPc
            /\ cmManifest' = cmManifest
       ELSE /\ cmOp' = [cmOp EXCEPT ![i] = op]
            /\ cmPc' = [cmPc EXCEPT ![i] = "persist_write"]
            /\ cmManifest' = [cmManifest EXCEPT ![i].iso_by_job[j] = p]
    /\ UNCHANGED <<codecVars, lifecycle, isoVars, orchVars, diskVars, faults, crashes>>

\* --------------------------------------------------------- integrity_check
\* integrity_check(sample): the items of by_hash are copied under the lock and
\* cut to the sample.
integrity_check(i, sample) ==
  /\ Calls(i)
  /\ cmOp' = [cmOp EXCEPT ![i] =
                [NoOp EXCEPT !.op = "integrity_check",
                             !.items = Sampled(cmManifest[i].by_hash, sample)]]
  /\ cmPc' = [cmPc EXCEPT ![i] = "ic_item"]
  /\ UNCHANGED <<codecVars, lifecycle, isoVars, orchVars, diskVars, cmManifest, faults, crashes>>

\* The file of the next item is not there: missing.append(digest).
IcMissing(i) ==
  /\ cmPc[i] = "ic_item"
  /\ cmOp[i].items # <<>>
  /\ blobFile[Head(cmOp[i].items)] = None
  /\ cmOp' = [cmOp EXCEPT ![i].missing = Append(@, Head(cmOp[i].items)),
                          ![i].items = Tail(@)]
  /\ UNCHANGED <<codecVars, lifecycle, isoVars, orchVars, diskVars, cmPc, cmManifest, cmOps, faults, crashes>>

\* The file of the next item is there: it is hashed in a worker thread.
IcExists(i) ==
  /\ cmPc[i] = "ic_item"
  /\ cmOp[i].items # <<>>
  /\ blobFile[Head(cmOp[i].items)] # None
  /\ cmPc' = [cmPc EXCEPT ![i] = "ic_hash"]
  /\ UNCHANGED <<codecVars, lifecycle, isoVars, orchVars, diskVars, cmManifest, cmOp, cmOps, faults, crashes>>

\* The hash is back: a digest that differs is appended to mismatches.  If the
\* file went away before it was opened the exception is logged and the item
\* is in neither list.
IcHash(i) ==
  LET dg == Head(cmOp[i].items)
      content == blobFile[dg]
  IN  /\ cmPc[i] = "ic_hash"
      /\ cmOp' = [cmOp EXCEPT
                    ![i].mismatches =
                       IF content # None /\ IsMismatch(dg, content)
                       THEN Append(@, <<dg, sha256(content)>>) ELSE @,
                    ![i].items = Tail(@)]
      /\ cmPc' = [cmPc EXCEPT ![i] = "ic_item"]
      /\ UNCHANGED <<codecVars, lifecycle, isoVars, orchVars, diskVars, cmManifest, cmOps, faults, crashes>>

\* No item is left: the report is returned.
IcDone(i) ==
  /\ cmPc[i] = "ic_item"
  /\ cmOp[i].items = <<>>
  /\ cmPc' = [cmPc EXCEPT ![i] = "idle"]
  /\ cmOp' = [cmOp EXCEPT ![i].ret = <<cmOp[i].mismatches, cmOp[i].missing>>]
  /\ UNCHANGED <<codecVars, lifecycle, isoVars, orchVars, diskVars, cmManifest, cmOps, faults, crashes>>

\* --------------------------------------------- the files, from the outside
Fault ==
  /\ faults < MaxFaults
  /\ faults' = faults + 1

\* The content of a stored blob is damaged.
BlobGarbled(dg) ==
  /\ Fault
  /\ blobFile[dg] \in Data
  /\ blobFile' = [blobFile EXCEPT ![dg] = Garbled]
  /\ UNCHANGED <<codecVars, lifecycle, isoVars, orchVars, blobTmp, manifestFile, manifestTmp, isoFile,
                 cmPc, cmManifest, cmOp, cmOps, crashes>>

\* A stored blob is removed.
BlobRemoved(dg) ==
  /\ Fault
  /\ blobFile[dg] # None
  /\ blobFile' = [blobFile EXCEPT ![dg] = None]
  /\ UNCHANGED <<codecVars, lifecycle, isoVars, orchVars, blobTmp, manifestFile, manifestTmp, isoFile,
                 cmPc, cmManifest, cmOp, cmOps, crashes>>

\* An image file is removed.
IsoRemoved(p) ==
  /\ Fault
  /\ p \in isoFile
  /\ isoFile' = isoFile \ {p}
  /\ UNCHANGED <<codecVars, lifecycle, isoVars, orchVars, blobFile, blobTmp, manifestFile, manifestTmp,
                 cmPc, cmManifest, cmOp, cmOps, crashes>>

\* ------------------------------------------------------------------ crash
\* The process dies: every CacheManager object is gone, the files stay.
ProcessDies ==
  /\ crashes < MaxCrashes
  /\ \E i \in Caches : cmPc[i] \notin {"off", "none"}
  /\ crashes' = crashes + 1
  /\ cmPc' = [i \in Caches |-> IF cmPc[i] = "off" THEN "off" ELSE "none"]
  /\ cmManifest' = [i \in Caches |-> NewManifest]
  /\ cmOp' = [i \in Caches |-> NoOp]

\* The process dies at any point of any operation.
Crash ==
  /\ ProcessDies
  /\ UNCHANGED <<codecVars, lifecycle, isoVars, orchVars, diskVars, cmOps, faults>>

\* A crash in the middle of write_text writing manifest.json itself.
CrashTornWriteInPlace(i) ==
  /\ cmPc[i] = "persist_write"
  /\ ProcessDies
  /\ manifestFile' = TornFile
  /\ UNCHANGED <<codecVars, lifecycle, isoVars, orchVars, blobFile, blobTmp, manifestTmp, isoFile, cmOps, faults>>

\* The process dies in the middle of tmp.write_text: manifest.json.tmp is
\* left cut short.
CrashTornWrite(i) ==
  /\ cmPc[i] = "persist_write"
  /\ ProcessDies
  /\ manifestTmp' = TornFile
  /\ UNCHANGED <<codecVars, lifecycle, isoVars, orchVars, blobFile, blobTmp, manifestFile, isoFile, cmOps, faults>>

\* ------------------------------------------------- the cache, two job tasks
\* Job.run of job i on its own CacheManager (object i): put_answer_bytes with
\* the job's payload.
JobPutAnswer(i, d) ==
  /\ i \in CJobs
  /\ cmOp[i].op = "new"
  /\ put_bytes(i, i, d)

\* Job.on_finish of job i: set_iso_path with the final image path.
JobSetIsoPath(i, p) ==
  /\ i \in CJobs
  /\ cmOp[i].op = "put_bytes"
  /\ set_iso_path(i, i, p, TRUE)

\* --------------------------------------------------------------- Next, Spec
Submit ==
  \E r \in JobIds :
    \/ SubmitArrive(r)
    \/ SubmitStart(r)
    \/ SubmitRespond(r)

\* The rejections of check_max_jobs; they need MAX_JOBS registered jobs.
SubmitReject ==
  \E r \in JobIds :
    \/ SubmitRejectFirst(r)
    \/ SubmitRejectSecond(r)

Pipeline ==
  \E j \in JobIds :
    \/ RunCacheRaise(j)
    \/ RunCacheInit(j)
    \/ RunNewRaise(j)
    \/ RunNew(j)
    \/ UpdateTask(j)
    \/ DownloadSkip(j)
    \/ DownloadChunk(j)
    \/ DownloadVerified(j)
    \/ DownloadFail(j)
    \/ StageOk(j)
    \/ StageReturnsNone(j)
    \/ StageRaises(j)
    \/ StageLast(j)
    \/ RunPutAnswer(j)
    \/ RunPutAnswerRaises(j)
    \/ FinishCompleted(j)
    \/ FinishStored(j)
    \/ FinishMoveRaises(j)
    \/ FinishRemove(j)

\* on_finish closing the attached socket; enabled only once a client attached.
PipelineClose ==
  \E j \in JobIds :
    \/ FinishRemoveClose(j)
    \/ FinishClosed(j)

Websocket ==
  \E c \in Clients :
    \/ \E j \in WsTargets : WsReject(c, j)
    \/ \E j \in WsTargets : WsConnect(c, j)
    \/ \E j \in WsTargets : WsConnectWait(c, j)
    \/ WsAttach(c)
    \/ WsDrop(c)
    \/ WsDisconnect(c)
    \/ WsDisconnectWait(c)
    \/ WsDetach(c)

\* The service taking requests, no websocket client connected.
Next == Submit \/ SubmitReject \/ Pipeline

Spec == Init /\ [][Next]_vars

\* The service with websocket clients and fewer requests than MAX_JOBS.
NextWs == Submit \/ Pipeline \/ PipelineClose \/ Websocket

SpecWs == InitWs /\ [][NextWs]_vars

\* One CacheManager, its callers, damage to the files and crashes.
InitCache ==
  /\ InitCommon
  /\ reqPc = [r \in JobIds |-> "off"]
  /\ wsPc = [c \in Clients |-> "off"]
  /\ cmPc = [i \in Caches |-> IF i = 1 THEN "none" ELSE "off"]
  /\ CodecOff
  /\ packPc = [t \in Packs |-> "off"]
  /\ lifecycle = NotStarted
  /\ IsoOff

CacheLoad ==
  \E i \in Caches :
    \/ CacheNewLoad(i)
    \/ CacheNewInit(i)
    \/ PersistWrite(i)
    \/ PersistReplace(i)

CachePut ==
  \E i \in Caches :
    \/ PutWriteTmp(i)
    \/ PutReplace(i)

CacheCalls ==
  \E i \in Caches :
    \/ \E j \in CJobs, d \in Data : put_bytes(i, j, d)
    \/ \E j \in CJobs : delete_by_job(i, j)
    \/ \E dg \in Digests : delete_by_hash(i, dg)
    \/ \E j \in CJobs, dg \in Digests : link_job_to_hash(i, j, dg)
    \/ Unlink(i)
    \/ UnlinkRaises(i)
    \/ \E j \in CJobs, p \in Paths, me \in BOOLEAN : set_iso_path(i, j, p, me)
    \/ \E sample \in Samples : integrity_check(i, sample)
    \/ IcMissing(i)
    \/ IcExists(i)
    \/ IcHash(i)
    \/ IcDone(i)

CacheFaults ==
  \/ \E dg \in Digests : BlobGarbled(dg)
  \/ \E dg \in Digests : BlobRemoved(dg)
  \/ \E p \in Paths : IsoRemoved(p)
  \/ Crash
  \/ \E i \in Caches : CrashTornWrite(i)

NextCache == CacheLoad \/ CachePut \/ CacheCalls \/ CacheFaults

SpecCache == InitCache /\ [][NextCache]_vars

\* Two jobs running at the same time, each on the CacheManager its run()
\* obtained from CacheManager.new(); no crash, no damage.
InitCache2 ==
  /\ InitCommon
  /\ reqPc = [r \in JobIds |-> "off"]
  /\ wsPc = [c \in Clients |-> "off"]
  /\ cmPc = [i \in Caches |-> "none"]
  /\ CodecOff
  /\ packPc = [t \in Packs |-> "off"]
  /\ lifecycle = NotStarted
  /\ IsoOff

CacheJobs ==
  \E i \in Caches :
    \/ \E d \in Data : JobPutAnswer(i, d)
    \/ \E p \in Paths : JobSetIsoPath(i, p)
    \/ PersistReplaceRaises(i)
    \/ PutReplaceRaises(i)

NextCache2 == CacheLoad \/ CachePut \/ CacheJobs

SpecCache2 == InitCache2 /\ [][NextCache2]_vars

\* ============================================== archive codec: the operations
\* unpack_initrd(initrd_path, dest_dir), and the check of its result by the
\* pipeline (`if not ok: return None`): the stream is decompressed and parsed
\* into dest_dir; any exception is logged and False is returned.
unpack_initrd ==
  /\ cpioPc = "start"
  /\ LET r == IF Decompresses(initrd)
              THEN _parse_cpio_newc_to_dir(initrd.recs, ramdisk)
              ELSE [tree |-> ramdisk, sidecar |-> sidecar, raised |-> TRUE]
     IN  /\ ramdisk' = r.tree
         /\ sidecar' = r.sidecar
         /\ ok' = IF r.raised THEN "False" ELSE "True"
         /\ cpioPc' = IF r.raised THEN "returned_none" ELSE "unpacked"
  /\ UNCHANGED <<orchVars, storeVars, isoVars, lifecycle, initrd, cpio_bytes, packVars>>

\* create_answer_file(path_to_unpacked_iso=extracted_ram_disk, ...): the answer
\* file is written into the unpacked ramdisk.
create_answer_file ==
  /\ cpioPc = "unpacked"
  /\ n_answer \notin DOMAIN ramdisk
  /\ ramdisk' = write_bytes(ramdisk, n_answer, <<"t">>)
  /\ UNCHANGED <<orchVars, storeVars, isoVars, lifecycle, initrd, sidecar, ok, cpio_bytes, cpioPc, packVars>>

\* shutil.copy(discovery_script_path, extracted_ram_disk / "discovery.sh")
CopyDiscovery ==
  /\ cpioPc = "unpacked"
  /\ n_discovery \notin DOMAIN ramdisk
  /\ ramdisk' = write_bytes(ramdisk, n_discovery, <<"#", "!", "/", "s", "h", "LF">>)
  /\ UNCHANGED <<orchVars, storeVars, isoVars, lifecycle, initrd, sidecar, ok, cpio_bytes, cpioPc, packVars>>

\* repack_initrd(src_dir, out_path): the tree is serialized, compressed with
\* zstd and written to out_path.
repack_initrd(rev) ==
  /\ cpioPc = "unpacked"
  /\ cpio_bytes' = _build_cpio_newc_from_dir(ramdisk, sidecar, rev)
  /\ cpioPc' = "packed"
  /\ UNCHANGED <<orchVars, storeVars, isoVars, lifecycle, initrd, ramdisk, sidecar, ok, packVars>>

\* A ramdisk image to convert: boot/initrd.img holds an archive in one of the
\* compressions, dest_dir is empty.
InitCodec ==
  /\ InitCommon
  /\ reqPc = [r \in JobIds |-> "off"]
  /\ wsPc = [c \in Clients |-> "off"]
  /\ cmPc = [i \in Caches |-> "off"]
  /\ IsoOff
  /\ initrd \in [format : Formats, recs : Archives]
  /\ ramdisk = EmptyTree
  /\ sidecar = NoSidecar
  /\ ok = "unset"
  /\ cpio_bytes = <<>>
  /\ cpioPc = "start"
  /\ cwd = None
  /\ old_cwd = [t \in Packs |-> None]
  /\ read_from = [t \in Packs |-> NothingRead]
  /\ packPc = [t \in Packs |-> "off"]
  /\ lifecycle = NotStarted

NextCodec ==
  \/ unpack_initrd
  \/ create_answer_file
  \/ CopyDiscovery
  \/ \E rev \in BOOLEAN : repack_initrd(rev)

SpecCodec == InitCodec /\ [][NextCodec]_vars

\* ================================================= create_modified_iso
\* iso/iso.py and iso/tools.py: the stages of one build and the files they
\* leave in its workspace work_dir = <iso_dir>/job-<job_id>.  One action is the
\* run of the build's task from the end of one external tool (a subprocess or
\* an executor thread) to the start of the next one; the progress updates
\* between the stages are those of the orchestrator above.  A build that
\* returns an image is taken to be stored and moved without error, so that
\* its job ends completed; one that returns None or raises ends failed.
INITRD == "boot/initrd.img"
PVE_BASE == "pve-base.squashfs"
PVE_INSTALLER == "pve-installer.squashfs"
ELTORITO == "boot/grub/i386-pc/eltorito.img"

\* The files of the base image, and those xorriso_repack_iso insists on.
ImageFiles == {INITRD, PVE_BASE, PVE_INSTALLER, ELTORITO}
Required == {PVE_BASE, PVE_INSTALLER, ELTORITO}

\* The positions at which create_modified_iso has ended without an image.
EndedFailed == {"returned_none", "raised", "guard_raised"}

\* The build moves to position pc2 and starts the tools; the job's status
\* follows from the way create_modified_iso ends (Job.run and on_finish).
IsoStep(b, pc2, tools) ==
  /\ isoPc' = [isoPc EXCEPT ![b] = pc2]
  /\ spawned' = [spawned EXCEPT ![b] = @ \cup tools]
  /\ status' = [status EXCEPT ![b] = IF pc2 \in EndedFailed THEN FAILED
                                     ELSE IF pc2 = "returned" THEN COMPLETED
                                     ELSE IN_PROGRESS]
  /\ UNCHANGED <<codecVars, lifecycle, storeVars, reqPc, resp, jobs, install_progress, socket,
                 lockHeld, taskPc, stage, dl, pendingUpd, updCalls, exc, manifestDisk,
                 jobCache, wsPc, wsJob, chan, chanOpen, overlap>>

\* The required files the guard finds missing, with the guard left out:
\* nothing is ever found missing.
MissingUnchecked(files) == {}

\* xorriso_repack_iso, lines 86-88: the required files that do not exist.
Missing(files) == Required \ files

\* The image named without the job id.
shared_name(b) == default_name

\* Line 182: the name of the image in work_dir/repacked.
src_name(b) == [prefix |-> "auto-installer", job |-> b]

\* ModifiedProxmoxISO(...) makes the directories of the workspace;
\* create_modified_iso starts xorriso on the base image.
IsoStart(b) ==
  /\ isoPc[b] = "off"
  /\ IsoStep(b, "extract", {"xorriso -extract"})
  /\ UNCHANGED <<coroutine_status, extracted, ram_disk, repacked_ram_disk,
                 squashfs_dir, tmp_squash, out>>
  /\ UNCHANGED <<repacked_dir, moveVars>>

\* xorriso_extract_iso ends.  With rc 0 the tree holds the files have of the
\* image and the result is any(outp.iterdir()); with another rc the result is
\* False, whatever was extracted.  The result is logged and not looked at.
\* The mode file is written; unpack_initrd resolves boot/initrd.img, which
\* raises if there is none, and starts zstdcat | cpio.
xorriso_extract_iso(b, rc0, have) ==
  /\ isoPc[b] = "extract"
  /\ coroutine_status' = [coroutine_status EXCEPT ![b] =
                            IF rc0 /\ have # {} THEN "True" ELSE "False"]
  /\ extracted' = [extracted EXCEPT ![b] =
                     [files |-> have,
                      initrd |-> IF INITRD \in have THEN "base" ELSE "none",
                      rootfs |-> IF PVE_BASE \in have THEN "base" ELSE "none",
                      builder |-> None]]
  /\ IF INITRD \in have
     THEN IsoStep(b, "unpack", {"cpio -i"})
     ELSE IsoStep(b, "raised", {})
  /\ UNCHANGED <<ram_disk, repacked_ram_disk, squashfs_dir, tmp_squash, out>>
  /\ UNCHANGED <<repacked_dir, moveVars>>

\* tools.unpack_initrd ends: the exit code of the pipe is logged only and the
\* result is any(outp.iterdir()), True as soon as anything was extracted.  On
\* False create_modified_iso returns None; on True the answer file is written
\* into the tree and repack_initrd starts find | cpio | zstd.
tools_unpack_initrd(b, got) ==
  /\ isoPc[b] = "unpack"
  /\ ram_disk' = [ram_disk EXCEPT ![b] = got]
  /\ IF got = "empty"
     THEN IsoStep(b, "returned_none", {})
     ELSE IsoStep(b, "repack", {"cpio -o"})
  /\ UNCHANGED <<coroutine_status, extracted, repacked_ram_disk, squashfs_dir,
                 tmp_squash, out>>
  /\ UNCHANGED <<repacked_dir, moveVars>>

\* tools.repack_initrd ends: True if the pipe ended with rc 0 and wrote a
\* non-empty file.  On False create_modified_iso returns None; on True
\* replace_initrd_file hands the copy to an executor thread.
tools_repack_initrd(b, good) ==
  /\ isoPc[b] = "repack"
  /\ repacked_ram_disk' = [repacked_ram_disk EXCEPT ![b] = IF good THEN ram_disk[b] ELSE @]
  /\ IF good
     THEN IsoStep(b, "replace", {})
     ELSE IsoStep(b, "returned_none", {})
  /\ UNCHANGED <<coroutine_status, extracted, ram_disk, squashfs_dir, tmp_squash, out>>
  /\ UNCHANGED <<repacked_dir, moveVars>>

\* replace_initrd_file ends: the repacked ramdisk has replaced boot/initrd.img,
\* or the copy raised, which is logged and answered with False.  The result is
\* not looked at; create_modified_iso starts unsquashfs on pve-base.squashfs.
replace_initrd_file(b, copied) ==
  /\ isoPc[b] = "replace"
  /\ extracted' = [extracted EXCEPT ![b].initrd =
                     IF ~copied THEN @
                     ELSE IF repacked_ram_disk[b] = "full" THEN "patched" ELSE "partial"]
  /\ IsoStep(b, "unsquash", {"unsquashfs"})
  /\ UNCHANGED <<coroutine_status, ram_disk, repacked_ram_disk, squashfs_dir,
                 tmp_squash, out>>
  /\ UNCHANGED <<repacked_dir, moveVars>>

\* unsquashfs ends: with rc 0 or 2 the root file system is unpacked and the
\* companion tooling is built; with another rc (there is no pve-base.squashfs,
\* or it cannot be read) create_modified_iso returns None.
Unsquashed(b, rc_ok) ==
  /\ isoPc[b] = "unsquash"
  /\ rc_ok => PVE_BASE \in extracted[b].files
  /\ squashfs_dir' = [squashfs_dir EXCEPT ![b] = IF rc_ok THEN "base" ELSE @]
  /\ IF rc_ok
     THEN IsoStep(b, "utm", {"build-utm"})
     ELSE IsoStep(b, "returned_none", {})
  /\ UNCHANGED <<coroutine_status, extracted, ram_disk, repacked_ram_disk, tmp_squash, out>>
  /\ UNCHANGED <<repacked_dir, moveVars>>

\* Lines 208-273: the tooling is built and copied into the root file system,
\* the service is written and linked, mksquashfs is started on
\* /tmp/pve-base.squashfs; or one of the commands run with check=True raises.
Companion(b, good) ==
  /\ isoPc[b] = "utm"
  /\ squashfs_dir' = [squashfs_dir EXCEPT ![b] = IF good THEN "patched" ELSE @]
  /\ IF good
     THEN IsoStep(b, "mksquash", {"mksquashfs"})
     ELSE IsoStep(b, "raised", {})
  /\ UNCHANGED <<coroutine_status, extracted, ram_disk, repacked_ram_disk, tmp_squash, out>>
  /\ UNCHANGED <<repacked_dir, moveVars>>

\* mksquashfs ends: with rc 0 /tmp/pve-base.squashfs holds the root file
\* system of this build (-noappend: whatever was there is replaced) and mv is
\* started; with another rc create_modified_iso returns None.
Mksquashfs(b, rc0) ==
  /\ isoPc[b] = "mksquash"
  /\ tmp_squash' = IF rc0 THEN b ELSE tmp_squash
  /\ IF rc0
     THEN IsoStep(b, "mv", {"mv"})
     ELSE IsoStep(b, "returned_none", {})
  /\ UNCHANGED <<coroutine_status, extracted, ram_disk, repacked_ram_disk, squashfs_dir, out>>
  /\ UNCHANGED <<repacked_dir, moveVars>>

\* mv /tmp/pve-base.squashfs <extracted>/pve-base.squashfs ends: the file that
\* is there has moved into the tree, or there was none and the command, run
\* with check=True, raises.  Then xorriso_repack_iso: it raises
\* FileNotFoundError if a required file is missing, else it starts xorriso.
MvSquash(b) ==
  /\ isoPc[b] = "mv"
  /\ IF tmp_squash = None
     THEN /\ IsoStep(b, "raised", {})
          /\ UNCHANGED <<extracted, tmp_squash>>
     ELSE LET files == extracted[b].files \cup {PVE_BASE} IN
            /\ extracted' = [extracted EXCEPT ![b].files = files,
                                              ![b].rootfs = "built",
                                              ![b].builder = tmp_squash]
            /\ tmp_squash' = None
            /\ IF Missing(files) # {}
               THEN IsoStep(b, "guard_raised", {})
               ELSE IsoStep(b, "author", {"xorriso -as mkisofs"})
  /\ UNCHANGED <<coroutine_status, ram_disk, repacked_ram_disk, squashfs_dir, out>>
  /\ UNCHANGED <<repacked_dir, moveVars>>

\* xorriso ends: True if its rc is 0 and the image exists and is not empty;
\* create_modified_iso then returns the path of the image, else None.
xorriso_repack_iso(b, good) ==
  /\ isoPc[b] = "author"
  /\ out' = [out EXCEPT ![b] =
               IF good THEN [built |-> TRUE, initrd |-> extracted[b].initrd,
                             rootfs |-> extracted[b].builder]
               ELSE @]
  /\ IF good
     THEN IsoStep(b, "returned", {})
     ELSE IsoStep(b, "returned_none", {})
  /\ UNCHANGED <<coroutine_status, extracted, ram_disk, repacked_ram_disk,
                 squashfs_dir, tmp_squash>>
  /\ repacked_dir' = [repacked_dir EXCEPT ![b] = IF good THEN {src_name(b)} ELSE @]
  /\ UNCHANGED moveVars

\* on_finish, lines 158-162, with the job completed: move_iso_to_final_location.
\* modified_iso_path names no file, so the source is the *.iso of
\* work_dir/repacked; os.replace moves it to final_dir under the same name, in
\* the place of a file of that name; then set_iso_path awaits p.exists in a
\* worker thread.
move_iso_to_final_location(b) ==
  /\ isoPc[b] = "returned"
  /\ repacked_dir[b] # {}
  /\ LET src == CHOOSE n \in repacked_dir[b] : TRUE
         dst == [dir |-> <<"final">>, name |-> src]
     IN  /\ final_dir' = {f \in final_dir : f.name # src}
                           \cup {[name |-> src, by |-> b, image |-> out[b]]}
         /\ repacked_dir' = [repacked_dir EXCEPT ![b] = @ \ {src}]
         /\ modified_iso_path' = [modified_iso_path EXCEPT ![b] = dst]
  /\ isoPc' = [isoPc EXCEPT ![b] = "moved"]
  /\ UNCHANGED <<codecVars, lifecycle, storeVars, orchVars, coroutine_status, extracted, ram_disk,
                 repacked_ram_disk, squashfs_dir, tmp_squash, out, spawned, iso_by_job>>

\* set_iso_path: the file is there, the path the move returned is recorded
\* under the job id in the manifest of the job's cache.
set_iso_path_final(b) ==
  /\ isoPc[b] = "moved"
  /\ \E f \in final_dir : f.name = modified_iso_path[b].name
  /\ iso_by_job' = [iso_by_job EXCEPT ![b] = modified_iso_path[b]]
  /\ isoPc' = [isoPc EXCEPT ![b] = "registered"]
  /\ UNCHANGED <<codecVars, lifecycle, storeVars, orchVars, coroutine_status, extracted, ram_disk,
                 repacked_ram_disk, squashfs_dir, tmp_squash, out, spawned, repacked_dir,
                 final_dir, modified_iso_path>>

\* What xorriso leaves of the base image: all of it, all but one file, or
\* nothing.
Extractions == {ImageFiles} \cup {ImageFiles \ {f} : f \in ImageFiles} \cup {{}}

\* MaxBuilds jobs that have downloaded the base image and build their images
\* at the same time.
InitIso ==
  /\ InitCommon
  /\ reqPc = [r \in JobIds |-> "off"]
  /\ wsPc = [c \in Clients |-> "off"]
  /\ cmPc = [i \in Caches |-> "off"]
  /\ CodecOff
  /\ packPc = [t \in Packs |-> "off"]
  /\ lifecycle = NotStarted
  /\ IsoOff

IsoStages ==
  \E b \in Builds :
    \/ IsoStart(b)
    \/ \E rc0 \in BOOLEAN, have \in Extractions : xorriso_extract_iso(b, rc0, have)
    \/ \E got \in {"empty", "partial", "full"} : tools_unpack_initrd(b, got)
    \/ \E good \in BOOLEAN : tools_repack_initrd(b, good)
    \/ \E copied \in BOOLEAN : replace_initrd_file(b, copied)

IsoRootfs ==
  \E b \in Builds :
    \/ \E rc_ok \in BOOLEAN : Unsquashed(b, rc_ok)
    \/ \E good \in BOOLEAN : Companion(b, good)
    \/ \E rc0 \in BOOLEAN : Mksquashfs(b, rc0)
    \/ MvSquash(b)
    \/ \E good \in BOOLEAN : xorriso_repack_iso(b, good)
    \/ move_iso_to_final_location(b)
    \/ set_iso_path_final(b)

NextIso == IsoStages \/ IsoRootfs

SpecIso == InitIso /\ [][NextIso]_vars

\* ======================================= archive codec: packing in threads
\* _build_cpio_newc_from_dir runs in a worker thread (repack_initrd hands it
\* to asyncio.to_thread); the threads of two jobs run at the same time and the
\* interpreter may switch between them after any call.  One action is one
\* call of a thread that reads or sets the working directory.
PackStep(t, from, to) ==
  /\ packPc[t] = from
  /\ packPc' = [packPc EXCEPT ![t] = to]
  /\ UNCHANGED <<orchVars, storeVars, isoVars, lifecycle, initrd, ramdisk, sidecar, ok, cpio_bytes, cpioPc>>

\* Line 144: old_cwd = getcwd()
getcwd(t) ==
  /\ PackStep(t, "getcwd", "chdir")
  /\ old_cwd' = [old_cwd EXCEPT ![t] = cwd]
  /\ UNCHANGED <<cwd, read_from>>

\* Line 145: chdir(root), root being the ramdisk tree of the thread's job
chdir(t) ==
  /\ PackStep(t, "chdir", "metadata")
  /\ cwd' = t
  /\ UNCHANGED <<old_cwd, read_from>>

\* Lines 147-150: Path(META_FILE) is looked up and read in the working
\* directory.
ReadSidecar(t) ==
  /\ PackStep(t, "metadata", "walk")
  /\ read_from' = [read_from EXCEPT ![t].sidecar = cwd]
  /\ UNCHANGED <<cwd, old_cwd>>

\* Lines 205-256: os_walk(".") lists, and write_entry opens, the paths under
\* the working directory.
Walk(t) ==
  /\ PackStep(t, "walk", "finally")
  /\ read_from' = [read_from EXCEPT ![t].walk = cwd]
  /\ UNCHANGED <<cwd, old_cwd>>

\* Lines 269-270: finally: chdir(old_cwd)
ChdirBack(t) ==
  /\ PackStep(t, "finally", "done")
  /\ cwd' = old_cwd[t]
  /\ UNCHANGED <<old_cwd, read_from>>

\* MaxPacks jobs have called repack_initrd, each on its own tree.
InitPack ==
  /\ InitCommon
  /\ reqPc = [r \in JobIds |-> "off"]
  /\ wsPc = [c \in Clients |-> "off"]
  /\ cmPc = [i \in Caches |-> "off"]
  /\ CodecOff
  /\ packPc = [t \in Packs |-> "getcwd"]
  /\ lifecycle = NotStarted
  /\ IsoOff

NextPack ==
  \E t \in Packs :
    \/ getcwd(t)
    \/ chdir(t)
    \/ ReadSidecar(t)
    \/ Walk(t)
    \/ ChdirBack(t)

SpecPack == InitPack /\ [][NextPack]_vars

\* ============================================ Job.stop against the run task
\* The coroutine c updates the job after stop() has returned.
Late(s, c) == s.late \/ (c = "run" /\ s.pc["stop"] = "done")

\* Job.update_status: the lock is free, so the call does not suspend.
update_status(s, c, new_status) ==
  [s EXCEPT !.status = new_status, !.statuses = Append(@, new_status), !.late = Late(s, c)]

\* Job.update_progress: the progress is stored; with a socket attached the
\* event is sent, and the coroutine is suspended in the send.
update_progress(s, c, progress) ==
  [s EXCEPT !.install_progress = progress,
            !.events = IF s.socket THEN Append(@, [progress |-> progress, status |-> s.status]) ELSE @,
            !.late = Late(s, c)]

\* on_finish, lines 177-179: `if self._task: self._task.cancel()`.  stop()
\* cancels the suspended run task, which then runs no further statement; the
\* run task cancelling itself has no statement left to run.
Cancel(s, c) ==
  IF s.task
  THEN [s EXCEPT !.task = FALSE,
                 !.pc = [d \in Coroutines |-> IF d = c \/ s.pc[d] = "done" THEN "done" ELSE "cancelled"]]
  ELSE [s EXCEPT !.pc[c] = "done"]

\* on_finish, lines 170-176: remove_job, then `await self._socket.close()`
\* when a socket is attached.
Close(s, c) ==
  LET r == [s EXCEPT !.listed = FALSE]
  IN  IF r.socket THEN [r EXCEPT !.pc[c] = "close"] ELSE Cancel(r, c)

\* on_finish, lines 165-168: the except clause.
Failed(s, c) ==
  LET r == update_progress(update_status(s, c, FAILED), c, 0)
  IN  IF r.socket THEN [r EXCEPT !.pc[c] = "sent_failed"] ELSE Close(r, c)

\* on_finish, lines 158-164: move_iso_to_final_location raises
\* FileNotFoundError when the build has no image yet; it moves the image
\* out of repacked/, or replaces the image in the final directory by
\* itself; then `await self.cache.set_iso_path(...)`.
Move(s, c) ==
  IF s.args[c].status = COMPLETED /\ s.modified_iso
  THEN IF s.image = "none"
       THEN Failed(s, c)
       ELSE [s EXCEPT !.image = "final",
                      !.moves = IF s.image = "repacked" THEN @ + 1 ELSE @,
                      !.pc[c] = "store"]
  ELSE Close(s, c)

\* on_finish, lines 155-156: update_status(status), update_progress(progress).
Enter(s, c, st, progress) ==
  LET r == update_progress(update_status([s EXCEPT !.args[c] = [status |-> st, progress |-> progress]],
                                         c, st), c, progress)
  IN  IF r.socket THEN [r EXCEPT !.pc[c] = "sent"] ELSE Move(r, c)

\* An action of the job: the other variables stay.
JobStep(c, from, next) ==
  /\ lifecycle.pc[c] = from
  /\ lifecycle' = next
  /\ UNCHANGED <<orchVars, storeVars, codecVars, isoVars>>

\* run, lines 100-115: download() returned True; update_progress(4 of 13),
\* the ModifiedProxmoxISO is created and create_modified_iso awaited.
RunDownloaded ==
  JobStep("run", "download",
          [update_progress(lifecycle, "run", calculate_percentage(4, 13))
             EXCEPT !.modified_iso = TRUE, !.pc["run"] = "stage"])

\* run, lines 100-109: download() returned False: on_finish(FAILED, 0).
RunDownloadFailed ==
  JobStep("run", "download", Enter(lifecycle, "run", FAILED, 0))

\* run, lines 117-129: create_modified_iso returned the path of the image in
\* repacked/; put_answer_bytes is awaited.
RunBuilt ==
  JobStep("run", "stage", [lifecycle EXCEPT !.image = "repacked", !.pc["run"] = "put"])

\* run, lines 131-137: create_modified_iso raised or returned nothing:
\* on_finish(FAILED, 0).
RunBuildFailed ==
  JobStep("run", "stage", Enter(lifecycle, "run", FAILED, 0))

\* run, lines 139-141: update_progress(100), then on_finish().
RunCompleted ==
  LET r == update_progress(lifecycle, "run", 100)
  IN  JobStep("run", "put", IF r.socket THEN [r EXCEPT !.pc["run"] = "progress"]
                                        ELSE Enter(r, "run", COMPLETED, 100))

\* The send of update_progress(100) has ended: on_finish().
RunOnFinish ==
  JobStep("run", "progress", Enter(lifecycle, "run", COMPLETED, 100))

\* stop(status, progress), lines 149-152, called while the task is alive.
stop(st) ==
  /\ lifecycle.pc["run"] \notin {"off", "done", "cancelled"}
  /\ JobStep("stop", "idle",
             Enter([lifecycle EXCEPT !.stop_requested = TRUE], "stop", st,
                   IF st = COMPLETED THEN 100 ELSE 0))

\* on_finish of c: the send of update_progress has ended.
OnFinishSent(c) == JobStep(c, "sent", Move(lifecycle, c))

\* on_finish of c: set_iso_path has returned.
OnFinishStored(c) ==
  JobStep(c, "store", Close([lifecycle EXCEPT !.stored = @ + 1], c))

\* on_finish of c: the send of update_progress(0) of the except clause has
\* ended.
OnFinishFailedSent(c) == JobStep(c, "sent_failed", Close(lifecycle, c))

\* on_finish of c: close() has returned (or raised, which is logged):
\* `self._socket = None`.
OnFinishClosed(c) ==
  JobStep(c, "close", Cancel([lifecycle EXCEPT !.socket = FALSE], c))

\* A job has been started, with or without a websocket attached.
InitStop ==
  /\ InitCommon
  /\ reqPc = [r \in JobIds |-> "off"]
  /\ wsPc = [c \in Clients |-> "off"]
  /\ cmPc = [i \in Caches |-> "off"]
  /\ CodecOff
  /\ packPc = [t \in Packs |-> "off"]
  /\ lifecycle \in {Started(ws) : ws \in BOOLEAN}
  /\ IsoOff

NextStop ==
  \/ RunDownloaded
  \/ RunDownloadFailed
  \/ RunBuilt
  \/ RunBuildFailed
  \/ RunCompleted
  \/ RunOnFinish
  \/ \E st \in {COMPLETED, FAILED} : stop(st)
  \/ \E c \in Coroutines :
       \/ OnFinishSent(c)
       \/ OnFinishStored(c)
       \/ OnFinishFailedSent(c)
       \/ OnFinishClosed(c)

SpecStop == InitStop /\ [][NextStop]_vars

\* ===================================================================== claims

\* get_job(id) of the registry
get_job(j) == IF j \in jobs THEN j ELSE None

\* GetFinalArtifactPath as a route reads it: a CacheManager that loads
\* manifest.json and looks the job up in iso_by_job.
HasFinalArtifactPath(j) == j \in manifestDisk.iso_by_job

\* No job that was created has left the registry.
NoneFinished == \A j \in created : j \in jobs

\* C1: when requests are submitted one after another and no job has finished,
\* each of the first MAX_JOBS submissions creates and registers a job and is
\* answered 201, and every later one is answered 429 and creates no Job.
C1_SequentialAdmission ==
  (~overlap /\ NoneFinished) =>
    \A r \in JobIds :
      reqPc[r] \in {"sleep", "done"} =>
        IF r <= MAX_JOBS
        THEN r \in jobs /\ (reqPc[r] = "done" => resp[r] = 201)
        ELSE resp[r] = 429 /\ r \notin created

\* C1 witness: five sequential submissions are registered, none has finished,
\* and the sixth has been answered 429.
C1_Witness ==
  /\ ~overlap
  /\ NoneFinished
  /\ Cardinality(jobs) = MAX_JOBS
  /\ reqPc[MAX_JOBS + 1] = "done"
  /\ resp[MAX_JOBS + 1] = 429

\* C2: under any interleaving of submissions and job completions the registry
\* never holds more than MAX_JOBS jobs, and a submission that arrives while the
\* registry is full is answered 429 at once (it does not wait for a slot).
C2_RegistryBounded ==
  /\ [](Cardinality(jobs) <= MAX_JOBS)
  /\ [][\A r \in JobIds :
          (reqPc[r] = "idle" /\ reqPc'[r] # "idle" /\ Cardinality(jobs) >= MAX_JOBS)
            => (reqPc'[r] = "done" /\ resp'[r] = 429 /\ jobs' = jobs)]_vars

\* C2 witness: two requests overlapped; the later one took the last slot
\* while the earlier one read its body, so that the registry is full and the
\* earlier one (one of the first MAX_JOBS to arrive) was refused by the
\* second check.
C2_Witness ==
  /\ overlap
  /\ Cardinality(jobs) = MAX_JOBS
  /\ \E r \in 1..MAX_JOBS : resp[r] = 429

\* C3: a job's status only moves pending -> in_progress -> completed | failed;
\* a terminal status is never left and never reached from pending.
C3_StatusForwardOnly ==
  [][\A j \in JobIds :
       status'[j] # status[j] =>
         <<status[j], status'[j]>> \in
            {<<PENDING, IN_PROGRESS>>, <<IN_PROGRESS, COMPLETED>>, <<IN_PROGRESS, FAILED>>}]_vars

\* C4: a pipeline task in which an exception was raised ends through
\* on_finish(FAILED, 0): status failed, progress 0; and the submitter, once
\* answered 201, is not answered anything else.
C4_ExceptionsBecomeFailed ==
  \A j \in JobIds :
    (exc[j] /\ TaskEnded(j)) =>
      /\ taskPc[j] = "done"
      /\ status[j] = FAILED
      /\ install_progress[j] = 0
      /\ resp[j] \in {0, 201}

\* C5: a job whose pipeline task has ended (normally, by a reported failure or
\* by an exception) is no longer in the registry: get_job finds nothing.
C5_EndedTaskLeavesRegistry ==
  \A j \in JobIds : TaskEnded(j) => get_job(j) = None

\* C6: while the status is pending or in_progress no final-artifact path is
\* recorded for the job; whenever the status is completed, on the job or in a
\* message that was sent, the final-artifact path is recorded.
C6_CompletedHasArtifact ==
  /\ \A j \in created :
       /\ status[j] \in {PENDING, IN_PROGRESS} => ~HasFinalArtifactPath(j)
       /\ status[j] = COMPLETED => HasFinalArtifactPath(j)
  /\ \A c \in Clients : \A i \in DOMAIN chan[c] :
       chan[c][i].status = COMPLETED => HasFinalArtifactPath(wsJob[c])

\* C7: the progress of a job, and the progress carried by every message sent
\* to an observer, is within 0..100.
C7_ProgressInRange ==
  /\ \A j \in JobIds : install_progress[j] \in 0..100
  /\ \A c \in Clients : \A i \in DOMAIN chan[c] : chan[c][i].progress \in 0..100

\* C8: the socket of a job is never replaced by another socket: it changes
\* only from none to a socket (attach) or from a socket to none (detach).
C8_ObserverNeverReplaced ==
  [][\A j \in JobIds :
       (socket[j] # None /\ socket'[j] # socket[j]) => socket'[j] = None]_vars

C10_OrderedDelivery ==
  \A c \in Clients : \A i, k \in DOMAIN chan[c] :
    (i < k /\ chan[c][i].kind = "progress" /\ chan[c][k].kind = "progress")
      => chan[c][i].n < chan[c][k].n

\* C10 witness: one connection received the updates of the download (through
\* the on_update tasks), the awaited update of run and updates of the assembly.
C10_Witness ==
  \E c \in Clients :
    /\ Len(chan[c]) >= 6
    /\ stage[wsJob[c]] >= 6
    /\ \A i \in 2..Len(chan[c]) : chan[c][i].n = i - 1

\* C11: an update_progress that runs stores its progress value; if a socket is
\* attached exactly one progress message goes out on it; if that send fails
\* nothing is delivered, and still the value is stored, the status is as it
\* was and the pipeline task neither ends nor records an exception.
C11_PushFailureNonFatal ==
  [][\A j \in JobIds : \A u \in pendingUpd[j] :
       u \notin pendingUpd'[j] =>
         /\ install_progress'[j] = u.progress
         /\ status'[j] = status[j]
         /\ taskPc'[j] = taskPc[j]
         /\ exc'[j] = exc[j]
         /\ IF socket[j] # None /\ chanOpen[socket[j]]
            THEN chan' = [chan EXCEPT ![socket[j]] =
                            Append(@, ProgressEvent(u.progress, status[j], u.n))]
            ELSE chan' = chan]_vars

\* C11 witness: the attached connection has gone away, two or more updates
\* have run since without being delivered, and the pipeline is assembling the
\* image with the progress of its current step stored.
C11_Witness ==
  \E c \in Clients :
    LET j == wsJob[c] IN
      /\ j # None /\ socket[j] = c /\ ~chanOpen[c] /\ wsPc[c] = "open"
      /\ chan[c] # <<>>
      /\ taskPc[j] = "stage" /\ pendingUpd[j] = {}
      /\ updCalls[j] > chan[c][Len(chan[c])].n + 1
      /\ install_progress[j] = calculate_percentage(stage[j], 14)

\* C12: a detach_socket call leaves the job without a socket, whether it had
\* one or not, and changes neither status nor progress; a call on a job
\* without a socket changes nothing of the job; and while a job has no socket
\* its updates deliver nothing to the connections that asked for it.
C12_DetachIdempotent ==
  [][/\ \A c \in Clients :
          (wsPc[c] \in {"open", "detachWait"} /\ wsPc'[c] = "closed") =>
            LET j == wsJob[c] IN
              /\ socket'[j] = None
              /\ status'[j] = status[j]
              /\ install_progress'[j] = install_progress[j]
              /\ socket[j] = None => UNCHANGED jobVars
     /\ \A j \in JobIds :
          (socket[j] = None /\ socket'[j] = None) =>
            \A c \in Clients :
              wsJob[c] = j => (chan'[c] = chan[c] \/ chan'[c] = <<>>)]_vars

\* C12 witness: two connections were attached to one job; the first detached,
\* which left the job without a socket while the second is still connected
\* (its detach will be the second call in a row), and an update has run since.
C12_Witness ==
  /\ wsPc[1] = "closed" /\ wsPc[2] = "open"
  /\ wsJob[1] = wsJob[2]
  /\ wsJob[2] \in jobs
  /\ socket[wsJob[2]] = None
  /\ taskPc[wsJob[2]] = "stage"
  /\ updCalls[wsJob[2]] > Len(chan[2])

\* ------------------------------------------------------ claims on the cache
\* Steps of CacheManager i: it is called, or its operation goes on or returns.
CmCalled(i, name) == cmOps' # cmOps /\ cmOp'[i].op = name /\ cmOp[i] # cmOp'[i]
CmReturns(i, name) ==
  cmPc[i] = "persist_replace" /\ cmPc'[i] = "idle" /\ cmOp[i].op = name
CmGoesOn(i, name) ==
  /\ cmOp[i].op = name
  /\ cmOps' = cmOps /\ crashes' = crashes
  /\ cmPc'[i] # cmPc[i] \/ cmOp'[i] # cmOp[i]
Untroubled == faults = 0 /\ crashes = 0
BlobFiles == {dg \in Digests : blobFile[dg] # None}

\* C13: put_bytes writes the blob only if no file is at data/<digest>: called
\* with bytes whose blob is there it writes nothing to the store; it leaves
\* the mappings of the other jobs as they are and persists the manifest; so
\* once it has returned, the job and every job that stored the same bytes
\* before are mapped to the one digest in manifest.json, and one blob file
\* holds those bytes.
C13_CacheDedup ==
  /\ [](\A i \in Caches :
          cmPc[i] \in {"blob_write", "blob_replace"} => blobFile[cmOp[i].digest] = None)
  /\ [](\A i \in Caches :
          (Untroubled /\ cmPc[i] = "idle" /\ cmOp[i].op = "put_bytes"
             /\ ~cmOp[i].raised) =>
            LET dg == sha256(cmOp[i].data) IN
              /\ manifestFile.m.by_job[cmOp[i].job] = dg
              /\ \A a \in CJobs :
                   cmManifest[i].by_job[a] = dg => manifestFile.m.by_job[a] = dg
              /\ InByHash(manifestFile.m, dg)
              /\ {x \in BlobFiles : blobFile[x] = cmOp[i].data} = {dg})
  /\ [][\A i \in Caches :
          /\ (CmCalled(i, "put_bytes") /\ blobFile[cmOp'[i].digest] # None) =>
               /\ cmPc'[i] = "persist_write"
               /\ blobFile' = blobFile /\ blobTmp' = blobTmp
          /\ (CmCalled(i, "put_bytes") \/ CmGoesOn(i, "put_bytes")) =>
               \A k \in CJobs : k # cmOp'[i].job =>
                 cmManifest'[i].by_job[k] = cmManifest[i].by_job[k]
          /\ CmReturns(i, "put_bytes") =>
               /\ manifestFile'.m = cmManifest[i]
               /\ manifestFile'.m.by_job[cmOp[i].job] = cmOp[i].digest]_vars

\* C13 witness: the second of two jobs has stored the bytes the first one
\* stored; both are mapped to the one digest and one blob file exists.
C13_Witness ==
  /\ Untroubled
  /\ cmPc[1] = "idle" /\ cmOp[1].op = "put_bytes" /\ cmOp[1].ret # Nothing
  /\ cmOps = 2
  /\ manifestFile.m.by_job[1] = manifestFile.m.by_job[2]
  /\ manifestFile.m.by_job[1] # NoDigest
  /\ Cardinality(BlobFiles) = 1
  /\ blobTmp = {}

\* C14: delete_by_job removes the job's mapping and no other job's; for a job
\* without a mapping it changes no mapping and no blob; while another job is
\* mapped to the digest the digest stays in by_hash and the blob stays; when
\* no job is left the digest leaves by_hash and the blob file is unlinked;
\* the manifest so changed is what is persisted.
C14_CacheGC ==
  [][\A i \in Caches :
       /\ CmCalled(i, "delete_by_job") =>
            LET j == cmOp'[i].job
                m == cmManifest[i]
                m2 == cmManifest'[i]
                dg == m.by_job[j]
                shared == \E k \in CJobs : k # j /\ m.by_job[k] = dg
            IN  /\ m2.by_job[j] = NoDigest
                /\ \A k \in CJobs : k # j => m2.by_job[k] = m.by_job[k]
                /\ m2.iso_by_job = m.iso_by_job
                /\ blobFile' = blobFile
                /\ dg = NoDigest => (m2 = m /\ cmPc'[i] = "persist_write")
                /\ (dg # NoDigest /\ shared) =>
                     (m2.by_hash = m.by_hash /\ cmPc'[i] = "persist_write")
                /\ (dg # NoDigest /\ ~shared) =>
                     /\ ~InByHash(m2, dg)
                     /\ (InByHash(m, dg) /\ blobFile[dg] # None) => cmPc'[i] = "unlink"
       /\ CmGoesOn(i, "delete_by_job") =>
            /\ cmManifest'[i] = cmManifest[i]
            /\ IF cmPc[i] = "unlink"
               THEN blobFile' = [blobFile EXCEPT ![cmOp[i].digest] = None]
               ELSE blobFile' = blobFile
       /\ CmReturns(i, "delete_by_job") => manifestFile'.m = cmManifest[i]]_vars

\* C14 witness: of two jobs mapped to one digest the first was deleted: the
\* second is still mapped, the digest is in by_hash and the blob is there.
C14_Witness ==
  /\ Untroubled
  /\ cmPc[1] = "idle" /\ cmOp[1].op = "delete_by_job"
  /\ cmOp[1].digest # NoDigest
  /\ \E k \in CJobs : manifestFile.m.by_job[k] = cmOp[1].digest
  /\ InByHash(manifestFile.m, cmOp[1].digest)
  /\ blobFile[cmOp[1].digest] # None

\* C15: manifest.json always parses; a crash, wherever _persist_manifest is,
\* leaves manifest.json as it was; and the next CacheManager.new() takes that
\* manifest as its own without writing anything.
C15_ManifestDurable ==
  /\ [](manifestFile.st # "torn")
  /\ [][/\ crashes' # crashes => manifestFile' = manifestFile
        /\ \A i \in Caches :
             (cmPc[i] = "none" /\ cmPc'[i] # "none" /\ manifestFile.st = "ok") =>
               /\ cmManifest'[i] = manifestFile.m
               /\ cmPc'[i] = "idle"
               /\ manifestFile' = manifestFile]_vars

\* C15 witness: the process died after manifest.json.tmp was written (or while
\* it was) and before the rename; the next new() has loaded the manifest of
\* before, which is not the one left in the .tmp file.
C15_Witness ==
  /\ crashes = 1
  /\ manifestTmp.st # "absent"
  /\ manifestFile.st = "ok"
  /\ manifestFile.m # NewManifest
  /\ manifestTmp # manifestFile
  /\ cmPc[1] = "idle" /\ cmOp[1].op = "new"
  /\ cmManifest[1] = manifestFile.m

\* C16: right after a crash, with no file damaged from outside, every digest
\* in the by_hash of manifest.json has its blob file.
C16_NoDanglingReference ==
  (crashes > 0 /\ faults = 0 /\ manifestFile.st = "ok"
     /\ \A i \in Caches : cmPc[i] \in {"off", "none"}) =>
    \A k \in DOMAIN manifestFile.m.by_hash :
      blobFile[manifestFile.m.by_hash[k]] # None

\* C17: what a job's CacheManager has stored for the job, an operation that
\* returned normally, is in manifest.json from then on.
C17_NoLostMutation ==
  \A i \in Caches \cap CJobs :
    (cmPc[i] = "idle" /\ ~cmOp[i].raised /\ manifestFile.st = "ok") =>
      /\ cmOp[i].op \in {"put_bytes", "set_iso_path"} =>
           manifestFile.m.by_job[i] = cmManifest[i].by_job[i]
      /\ cmOp[i].op = "set_iso_path" =>
           manifestFile.m.iso_by_job[i] = cmManifest[i].iso_by_job[i]

\* C18: put_bytes returns (sha256 of the bytes, data/<digest>) with the job
\* mapped to the digest, the digest in by_hash and the manifest persisted;
\* from then on get_path_by_job gives that path and the blob holds the bytes
\* (no file being damaged from outside); get_path_by_job of a job without a
\* mapping gives nothing.
C18_PutThenGetPath ==
  /\ [](\A i \in Caches :
          /\ (cmPc[i] = "idle" /\ cmOp[i].op = "put_bytes" /\ ~cmOp[i].raised
                /\ faults = 0) =>
               /\ get_path_by_job(i, cmOp[i].job) = cmOp[i].ret[2]
               /\ read_bytes_by_job(i, cmOp[i].job) = cmOp[i].data
          /\ cmPc[i] \notin {"off", "none"} =>
               \A j \in CJobs :
                 cmManifest[i].by_job[j] = NoDigest => get_path_by_job(i, j) = Nothing)
  /\ [][\A i \in Caches :
          CmReturns(i, "put_bytes") =>
            LET dg == sha256(cmOp[i].data) IN
              /\ cmOp'[i].ret = <<dg, PathOf(dg)>>
              /\ cmManifest[i].by_job[cmOp[i].job] = dg
              /\ InByHash(cmManifest[i], dg)
              /\ manifestFile' = Written(cmManifest[i])]_vars

\* C18 witness: a put has returned; its job has a path and the other job,
\* which has no mapping, has none.
C18_Witness ==
  /\ cmPc[1] = "idle" /\ cmOp[1].op = "put_bytes" /\ faults = 0
  /\ cmOp[1].ret # Nothing
  /\ get_path_by_job(1, cmOp[1].job) = PathOf(sha256(cmOp[1].data))
  /\ \E j \in CJobs : get_path_by_job(1, j) = Nothing

\* C19: set_iso_path with must_exist on a path without a file raises and
\* changes neither _manifest nor manifest.json; otherwise it records the path
\* for the job, changes nothing else of the manifest, and persists it; after
\* it, get_iso_path gives the path while its file exists and nothing once the
\* file is gone.
C19_IsoPathBookkeeping ==
  /\ [](\A i \in Caches :
          (cmPc[i] = "idle" /\ cmOp[i].op = "set_iso_path" /\ ~cmOp[i].raised) =>
            get_iso_path(i, cmOp[i].job) =
              IF cmOp[i].path \in isoFile THEN cmOp[i].path ELSE None)
  /\ [][\A i \in Caches :
          /\ CmCalled(i, "set_iso_path") =>
               LET op == cmOp'[i] IN
                 /\ op.raised <=> (op.must_exist /\ op.path \notin isoFile)
                 /\ op.raised =>
                      /\ cmManifest' = cmManifest
                      /\ manifestFile' = manifestFile /\ manifestTmp' = manifestTmp
                      /\ cmPc'[i] = "idle"
                 /\ ~op.raised =>
                      cmManifest'[i] = [cmManifest[i] EXCEPT !.iso_by_job[op.job] = op.path]
          /\ CmReturns(i, "set_iso_path") =>
               /\ cmOp'[i].ret = <<cmOp[i].path>>
               /\ manifestFile'.m = cmManifest[i]
               /\ manifestFile.st = "ok" =>
                    /\ manifestFile'.m.by_job = manifestFile.m.by_job
                    /\ manifestFile'.m.by_hash = manifestFile.m.by_hash]_vars

\* C19 witness: a path was recorded for a job that has a stored payload; the
\* image file has since been removed and get_iso_path gives nothing.
C19_Witness ==
  /\ cmPc[1] = "idle" /\ cmOp[1].op = "set_iso_path" /\ cmOp[1].ret # Nothing
  /\ manifestFile.m.iso_by_job[cmOp[1].job] = cmOp[1].path
  /\ manifestFile.m.by_job[cmOp[1].job] # NoDigest
  /\ cmOp[1].path \notin isoFile
  /\ get_iso_path(1, cmOp[1].job) = None

\* C20: integrity_check takes the first `sample` digests of by_hash (all of
\* them without a sample); it appends a digest to missing exactly when its
\* file is not there, and to mismatches, with the hash found, exactly when
\* the file is there and hashes to something else; it changes no file and no
\* manifest.  Reading by job does no such check: it gives the path and the
\* bytes of the file as they are.
C20_IntegrityCheck ==
  /\ [](\A i \in Caches : \A j \in CJobs :
          LET dg == cmManifest[i].by_job[j] IN
            (cmPc[i] \notin {"off", "none"} /\ dg # NoDigest
               /\ InByHash(cmManifest[i], dg) /\ blobFile[dg] # None) =>
              /\ get_path_by_job(i, j) = PathOf(dg)
              /\ read_bytes_by_job(i, j) = blobFile[dg])
  /\ [][\A i \in Caches :
          /\ CmCalled(i, "integrity_check") =>
               /\ \E n \in 0..Len(cmManifest[i].by_hash) :
                    cmOp'[i].items = SubSeq(cmManifest[i].by_hash, 1, n)
               /\ cmOp'[i].missing = <<>> /\ cmOp'[i].mismatches = <<>>
               /\ UNCHANGED <<diskVars, cmManifest>>
          /\ CmGoesOn(i, "integrity_check") =>
               /\ UNCHANGED <<diskVars, cmManifest>>
               /\ cmPc[i] = "ic_item" /\ cmOp[i].items # <<>> =>
                    LET dg == Head(cmOp[i].items) IN
                      /\ cmOp'[i].mismatches = cmOp[i].mismatches
                      /\ IF blobFile[dg] = None
                         THEN cmOp'[i].missing = Append(cmOp[i].missing, dg)
                         ELSE cmOp'[i].missing = cmOp[i].missing
               /\ cmPc[i] = "ic_hash" =>
                    LET dg == Head(cmOp[i].items)
                        found == sha256(blobFile[dg])
                    IN  /\ cmOp'[i].missing = cmOp[i].missing
                        /\ IF blobFile[dg] # None /\ found # dg
                           THEN cmOp'[i].mismatches = Append(cmOp[i].mismatches, <<dg, found>>)
                           ELSE cmOp'[i].mismatches = cmOp[i].mismatches
               /\ cmPc'[i] = "idle" =>
                    cmOp'[i].ret = <<cmOp[i].mismatches, cmOp[i].missing>>]_vars

\* C20 witness: a blob was damaged; integrity_check has returned with that
\* digest under mismatches, and read_bytes_by_job still gives the damaged bytes.
C20_Witness ==
  /\ cmPc[1] = "idle" /\ cmOp[1].op = "integrity_check"
  /\ cmOp[1].mismatches # <<>>
  /\ cmOp[1].ret = <<cmOp[1].mismatches, cmOp[1].missing>>
  /\ \E j \in CJobs : read_bytes_by_job(1, j) = Garbled

\* --------------------------------------------------- claims on the codec
\* The entries of an archive: name, file type and data of the records before
\* its trailer.
Members(recs) ==
  {[name |-> recs[i].name, type |-> S_IFMT(recs[i].hdr.mode), data |-> recs[i].data] :
     i \in {k \in 1..Len(recs) : recs[k].name # TRAILER}}

\* Nothing was written into the tree between unpack and pack.
Unedited == n_answer \notin DOMAIN ramdisk /\ n_discovery \notin DOMAIN ramdisk

\* The archive holds its root and the directories of all its entries, as an
\* archive made from a tree does.
Closed(recs) ==
  LET names == {recs[i].name : i \in 1..Len(recs)} IN
    Dot \in names /\ \A n \in names : Ancestors(n) \subseteq names

\* C21: an archive that is unpacked and packed again with no edit in between
\* yields the same set of entries: the same names and file types, the same
\* bytes of content, a symlink's target being its content.
C21_RoundTrip ==
  (cpioPc = "packed" /\ Unedited /\ Closed(initrd.recs)) =>
    Members(cpio_bytes) = Members(initrd.recs)

\* The input cannot be decoded: its compression is not one that is read, or a
\* record up to the trailer carries a magic that is not the newc magic.
CodecError(file) ==
  \/ ~Decompresses(file)
  \/ \E i \in 1..Len(file.recs) :
       /\ file.recs[i].magic # NEWC
       /\ \A k \in 1..(i - 1) : file.recs[k].name # TRAILER

Packed == {i \in 1..Len(cpio_bytes) : cpio_bytes[i].name # TRAILER}

\* C23: a packed entry that has a record in the metadata file carries the
\* recorded permission bits, uid, gid, link count, mtime and device numbers;
\* one that has none carries 0755 if it is a directory and 0644 if it is a
\* file, with the executable bits added on a well-known script or binary path.
C23_PackMetadata ==
  cpioPc = "packed" =>
    \A i \in Packed :
      LET r == cpio_bytes[i]
          m == MetaGet(sidecar.metadata, r.name)
      IN  IF "mode" \in DOMAIN m
          THEN /\ S_IMODE(r.hdr.mode) = S_IMODE(m["mode"])
               /\ \A k \in {"uid", "gid", "nlink", "mtime", "devmajor", "devminor",
                            "rdevmajor", "rdevminor"} : r.hdr[k] = m[k]
          ELSE S_IMODE(r.hdr.mode) =
                 IF S_ISDIR(r.hdr.mode) THEN 493
                 ELSE IF WellKnown(r.name) THEN BitOr(420, 73)
                 ELSE 420

\* C24: the packed archive holds no record of the metadata file and exactly
\* one record for every other path of the tree; every record starts at a
\* multiple of 4 bytes; the trailer is its last record and occurs once.
C24_PackRecords ==
  cpioPc = "packed" =>
    /\ \A i \in 1..Len(cpio_bytes) : cpio_bytes[i].name # META_FILE
    /\ \A p \in DOMAIN ramdisk \ {META_FILE} :
         Cardinality({i \in Packed : cpio_bytes[i].name = p}) = 1
    /\ \A i \in 1..Len(cpio_bytes) : OffsetOf(cpio_bytes, i) % 4 = 0
    /\ cpio_bytes[Len(cpio_bytes)].name = TRAILER
    /\ Packed = 1..(Len(cpio_bytes) - 1)

\* C30: after unpack_initrd has returned True every directory, regular file
\* and symlink of the archive exists under dest_dir as what it is, and the
\* metadata file holds for every entry, under its name, the fields of its
\* header and, for a symlink, its target.
C30_UnpackMaterializes ==
  ok = "True" =>
    \A i \in {k \in 1..Len(initrd.recs) : initrd.recs[k].name # TRAILER} :
      LET r == initrd.recs[i] IN
        /\ r.name # Dot => r.name \in DOMAIN ramdisk
        /\ r.name \in DOMAIN ramdisk =>
             ramdisk[r.name] =
               IF S_ISDIR(r.hdr.mode) THEN Dir
               ELSE IF S_ISLNK(r.hdr.mode) THEN [kind |-> "symlink", data |-> r.data]
               ELSE File(r.data)
        /\ sidecar.exists
        /\ r.name \in DOMAIN sidecar.metadata.at
        /\ \A k \in DOMAIN r.hdr : sidecar.metadata.at[r.name][k] = r.hdr[k]
        /\ S_ISLNK(r.hdr.mode) => sidecar.metadata.at[r.name]["symlink"] = r.data

\* ------------------------------------------ claims on the image assembly
\* A stage of the build has failed: the extraction of the base image answered
\* False, the unpacking of the ramdisk left a partial tree, or the ramdisk of
\* the extracted tree is still that of the base image after the stage that
\* replaces it.
StageFailed(b) ==
  \/ coroutine_status[b] = "False"
  \/ ram_disk[b] = "partial"
  \/ (extracted[b].initrd = "base"
      /\ isoPc[b] \in {"unsquash", "utm", "mksquash", "mv", "author", "returned"})

\* C25: once a stage of create_modified_iso has failed no later stage runs:
\* the function has ended without an image, the job is not completed, and a
\* completed job's image holds the patched ramdisk.
C25_FailureAborts ==
  \A b \in Builds :
    /\ StageFailed(b) =>
         (isoPc[b] \in EndedFailed /\ ~out[b].built /\ status[b] # COMPLETED)
    /\ status[b] = COMPLETED => (out[b].built /\ out[b].initrd = "patched")

\* C26: a build whose extracted tree lacks pve-base.squashfs,
\* pve-installer.squashfs or the El Torito image never starts the authoring
\* tool and has no image, and when it has ended its job is failed.
C26_GuardClause ==
  \A b \in Builds :
    (isoPc[b] \notin {"off", "extract"} /\ Required \ extracted[b].files # {}) =>
      /\ "xorriso -as mkisofs" \notin spawned[b]
      /\ ~out[b].built
      /\ isoPc[b] \in EndedFailed \cup {"returned"} => status[b] = FAILED

\* A build has come as far as the authoring step with a required file
\* missing: xorriso_repack_iso raised before starting xorriso, the job is
\* failed.
C26_Witness ==
  \E b \in Builds :
    /\ isoPc[b] = "guard_raised"
    /\ "mv" \in spawned[b]
    /\ Required \ extracted[b].files # {}
    /\ "xorriso -as mkisofs" \notin spawned[b]
    /\ status[b] = FAILED

\* C27: the root file system in a build's extracted tree, and in its image,
\* is the one that build has made: no build takes in or overwrites a file of
\* the other.
C27_Isolation ==
  \A b \in Builds :
    /\ extracted[b].builder \in {None, b}
    /\ out[b].rootfs \in {None, b}

\* ----------------------------------------------- claims on the two locks
\* A job is suspended in an external tool: the fetch of the downloads page,
\* the download of the base image, or a subprocess of the build.
Suspended(j) == taskPc[j] \in {"new", "download", "stage"}

C29_FinalEvent ==
  \A c \in Clients :
    /\ \A i \in DOMAIN chan[c] : \A k \in DOMAIN chan[c] :
         (i < k /\ chan[c][i].status = COMPLETED) => chan[c][k].status # FAILED
    /\ (/\ wsJob[c] # None
        /\ taskPc[wsJob[c]] = "done"
        /\ \E i \in DOMAIN chan[c] : chan[c][i].status \in {COMPLETED, FAILED}) =>
         chan[c][Len(chan[c])].status = status[wsJob[c]]

\* ----------------------------------------------- claims on the final move
\* C31: once a job's image has been moved, the shared output directory holds
\* it, the image this job built, under a name with the job's id, the job's
\* workspace holds it no more, no other job's move has replaced it, and the
\* path registered for the job is the path it was moved to.
C31_FinalImage ==
  \A b \in Builds :
    isoPc[b] \in {"moved", "registered"} =>
      /\ \E f \in final_dir : f.name.job = b /\ f.by = b /\ f.image = out[b]
      /\ repacked_dir[b] = {}
      /\ modified_iso_path[b].dir = <<"final">>
      /\ isoPc[b] = "registered" =>
           /\ iso_by_job[b] = modified_iso_path[b]
           /\ \E f \in final_dir : f.name = iso_by_job[b].name /\ f.by = b

\* Every build has moved and registered its image, and the output directory
\* holds one image for each.
C31_Witness ==
  /\ \A b \in Builds : isoPc[b] = "registered"
  /\ Cardinality(final_dir) = MaxBuilds

\* ------------------------------------------ claims on the cache's mappings
\* C32: between the operations of a CacheManager every digest of by_hash is
\* the digest of at least one job of by_job.
C32_NoOrphanDigest ==
  \A i \in Caches :
    cmPc[i] = "idle" =>
      \A k \in DOMAIN cmManifest[i].by_hash :
        StillRef(cmManifest[i], cmManifest[i].by_hash[k])

\* C33: for a digest without an entry in by_hash get_path_by_hash gives
\* nothing and exists gives False, and get_path_by_job gives nothing for a
\* job whose digest has no entry in by_hash.
C33_AbsentLookup ==
  \A i \in Caches :
    cmPc[i] = "idle" =>
      /\ \A dg \in Digests :
           ~InByHash(cmManifest[i], dg) =>
             (get_path_by_hash(i, dg) = Nothing /\ ~exists(i, dg))
      /\ \A j \in CJobs :
           LET dg == cmManifest[i].by_job[j] IN
             (dg # NoDigest /\ ~InByHash(cmManifest[i], dg)) =>
               get_path_by_job(i, j) = Nothing

\* The call of link_job_to_hash(j, dg) on CacheManager i is this step.
LinkCalled(i) ==
  /\ cmPc[i] = "idle"
  /\ cmOps' = cmOps + 1
  /\ cmOp'[i].op = "link_job_to_hash"

\* link_job_to_hash has returned on CacheManager i and no other operation
\* has started since.
Linked(i) ==
  /\ cmPc[i] = "idle"
  /\ cmOp[i].op = "link_job_to_hash"
  /\ cmOp[i].ret # Nothing
  /\ ~cmOp[i].raised

\* C38: link_job_to_hash of a digest that by_hash does not hold returns
\* nothing and leaves the manifest in memory and on disk as it is; of a digest
\* it holds, it maps the job to the digest and changes no other entry.  The
\* reference counts for garbage collection: deleting another job of that
\* digest keeps the digest and its blob, deleting the linked job when it is
\* the last one drops the digest.
C38_LinkJobToHash ==
  [][\A i \in Caches :
       /\ LinkCalled(i) =>
            LET j == cmOp'[i].job
                dg == cmOp'[i].digest
                m == cmManifest[i]
            IN  IF InByHash(m, dg)
                THEN /\ cmManifest'[i] = [m EXCEPT !.by_job[j] = dg]
                     /\ cmPc'[i] = "persist_write"
                ELSE /\ cmManifest'[i] = m
                     /\ cmPc'[i] = "idle"
                     /\ cmOp'[i].ret = Nothing
                     /\ manifestFile' = manifestFile /\ manifestTmp' = manifestTmp
       /\ (Linked(i) /\ cmOps' = cmOps + 1 /\ cmOp'[i].op = "delete_by_job") =>
            LET j == cmOp[i].job
                dg == cmOp[i].digest
                k == cmOp'[i].job
                others == {x \in CJobs \ {k} : cmManifest[i].by_job[x] = dg}
            IN  /\ cmManifest[i].by_job[j] = dg
                /\ (k # j /\ cmManifest[i].by_job[k] = dg) =>
                     (InByHash(cmManifest'[i], dg) /\ cmPc'[i] # "unlink"
                      /\ cmManifest'[i].by_job[j] = dg)
                /\ (k = j /\ others = {}) => ~InByHash(cmManifest'[i], dg)]_vars

\* link_job_to_hash has linked a job to a digest another job has stored: the
\* digest now has two jobs.
C38_Witness ==
  \E i \in Caches :
    /\ Linked(i)
    /\ faults = 0
    /\ cmOp[i].ret = PathOf(cmOp[i].digest)
    /\ \E k \in CJobs \ {cmOp[i].job} : cmManifest[i].by_job[k] = cmOp[i].digest
    /\ manifestFile = Written(cmManifest[i])

\* ------------------------------------------- claims on the manifest file
\* CacheManager.new() on CacheManager i is this step.
Loads(i) == cmPc[i] = "none" /\ cmPc'[i] # "none"

ReachesTrailer(file) ==
  \E i \in 1..Len(file.recs) :
    /\ file.recs[i].name = TRAILER
    /\ \A k \in 1..i : file.recs[k].magic = NEWC

\* C36: unpack_initrd returns True only for an input on which the parser has
\* come to the trailer entry.
C36_SuccessNeedsTrailer ==
  (cpioPc # "start" /\ ok = "True") => ReachesTrailer(initrd)

\* ------------------------------------------ claims on packing in threads
\* C34: every pack reads its metadata file and walks its files in the tree
\* of its own job, and once all packs have ended the working directory is
\* the one of before.
C34_PackIsolation ==
  /\ \A t \in Packs :
       /\ packPc[t] \in {"walk", "finally", "done"} => read_from[t].sidecar = t
       /\ packPc[t] \in {"finally", "done"} => read_from[t].walk = t
  /\ (\A t \in Packs : packPc[t] = "done") => cwd = None

\* ------------------------------------------------- claims on the job lock
\* C35: while run is suspended in an awaited network or external operation
\* (fetching the downloads page, a download, a pipeline stage) the lock of
\* the job is free, and no attach_socket or detach_socket waits for it.
C35_LockFreeWhileAwaiting ==
  \A j \in JobIds : Suspended(j) => (~lockHeld[j] /\ LockWaiters(j) = {})

\* ---------------------------------------------------- claims on Job.stop
\* The events sent with a terminal status.
FinalEvents ==
  {i \in DOMAIN lifecycle.events : lifecycle.events[i].status \in {COMPLETED, FAILED}}

\* C39: whatever the interleaving of stop() with the run task, the job is
\* given one terminal status at most, one final event at most is pushed, the
\* image is moved and registered once at most, and the task updates nothing
\* after stop() has returned.
C39_FinishOnce ==
  /\ Len(lifecycle.statuses) <= 1
  /\ Cardinality(FinalEvents) <= 1
  /\ lifecycle.moves <= 1
  /\ lifecycle.stored <= 1
  /\ ~lifecycle.late

====
